---- MODULE Spec2Model ----
(***************************************************************************)
(* Product recommender: candidate extraction, validation, scoring,         *)
(* deduplication, category filter and final selection                      *)
(* (backend/recommender.py, backend/utils.py).                             *)
(*                                                                         *)
(* A Python str is a sequence of one-character strings, so that len(),     *)
(* lower(), slicing, "in", find() and the regular expressions are computed *)
(* on the characters the way the code computes them.                       *)
(***************************************************************************)
EXTENDS Integers, Sequences, FiniteSets, TLC

\* ------------------------------------------------------------------ str

UpperSeq == <<"A","B","C","D","E","F","G","H","I","J","K","L","M","N","O","P","Q","R","S","T","U","V","W","X","Y","Z">>
LowerSeq == <<"a","b","c","d","e","f","g","h","i","j","k","l","m","n","o","p","q","r","s","t","u","v","w","x","y","z">>
DigitSeq == <<"0","1","2","3","4","5","6","7","8","9">>

Range(f) == {f[i] : i \in DOMAIN f}
UpperSet == Range(UpperSeq)
LowerSet == Range(LowerSeq)
Letter == UpperSet \cup LowerSet
Digit == Range(DigitSeq)
\* \w of Python's re on str: letters, digits and the underscore
Word == Letter \cup Digit \cup {"_"}
\* \s
Space == {" ", "\t", "\n"}
\* every character a text of the model is made of
Char == Word \cup Space \cup {"-", ".", ",", "!", "?", "'", "[", "]"}

LowerChar(c) == IF c \in UpperSet THEN LowerSeq[CHOOSE i \in 1..26 : UpperSeq[i] = c] ELSE c
UpperChar(c) == IF c \in LowerSet THEN UpperSeq[CHOOSE i \in 1..26 : LowerSeq[i] = c] ELSE c

\* str.lower()
lower(s) == [i \in 1..Len(s) |-> LowerChar(s[i])]

Min(a, b) == IF a < b THEN a ELSE b
Max(a, b) == IF a > b THEN a ELSE b

\* s[a:b] for 0 <= a, 0 <= b (0-based, end exclusive)
Slice(s, a, b) == SubSeq(s, a + 1, Min(b, Len(s)))

\* sub in s
Contains(s, sub) == \E i \in 1..(Len(s) - Len(sub) + 1) : SubSeq(s, i, i + Len(sub) - 1) = sub

\* s.find(sub): the 0-based index of the first occurrence, -1 when there is none
Find(s, sub) ==
  IF Contains(s, sub)
  THEN (CHOOSE i \in 1..(Len(s) - Len(sub) + 1) :
          /\ SubSeq(s, i, i + Len(sub) - 1) = sub
          /\ \A j \in 1..(i - 1) : SubSeq(s, j, j + Len(sub) - 1) # sub) - 1
  ELSE -1

\* any(term in s for term in terms)
AnyIn(terms, s) == \E k \in DOMAIN terms : Contains(s, terms[k])

\* s.strip()
RECURSIVE LStrip(_), RStrip(_)
LStrip(s) == IF s # <<>> /\ Head(s) \in Space THEN LStrip(Tail(s)) ELSE s
RStrip(s) == IF s # <<>> /\ s[Len(s)] \in Space THEN RStrip(SubSeq(s, 1, Len(s) - 1)) ELSE s
Strip(s) == RStrip(LStrip(s))

\* s.split(): the maximal runs of non-whitespace characters
RECURSIVE SplitFrom(_, _, _)
SplitFrom(s, i, cur) ==
  IF i > Len(s) THEN (IF cur = <<>> THEN <<>> ELSE <<cur>>)
  ELSE IF s[i] \in Space
       THEN (IF cur = <<>> THEN <<>> ELSE <<cur>>) \o SplitFrom(s, i + 1, <<>>)
       ELSE SplitFrom(s, i + 1, Append(cur, s[i]))
Split(s) == SplitFrom(s, 1, <<>>)

\* [c for c in s if keep(c)]
RECURSIVE FilterChars(_, _)
FilterChars(s, keep) ==
  IF s = <<>> THEN <<>>
  ELSE (IF Head(s) \in keep THEN <<Head(s)>> ELSE <<>>) \o FilterChars(Tail(s), keep)

\* ------------------------------------------------------------------- re
\* A pattern is a tree: one character of a set, a sequence, an alternation,
\* or a greedy repetition {lo,hi} (hi = -1: no upper limit).  Ends(n, s, i) lists the positions where a
\* match of n that starts at s[i] can end, in the order Python's backtracking
\* matcher tries them, so its head is the match re returns.

RSet(S) == [k |-> "set", s |-> S]
RSeq(a) == [k |-> "seq", a |-> a]
RAlt(a) == [k |-> "alt", a |-> a]
RRep(n, lo, hi) == [k |-> "rep", n |-> n, lo |-> lo, hi |-> hi]
RStar(n) == RRep(n, 0, -1)
RPlus(n) == RRep(n, 1, -1)
ROpt(n) == RRep(n, 0, 1)
\* a literal string
RLit(str) == RSeq([i \in 1..Len(str) |-> RSet({str[i]})])
\* a literal string under re.IGNORECASE
RLitI(str) == RSeq([i \in 1..Len(str) |-> RSet({LowerChar(str[i]), UpperChar(str[i])})])

RECURSIVE Ends(_, _, _), EndsSeq(_, _, _, _), EndsAlt(_, _, _, _), EndsRep(_, _, _, _)
RECURSIVE FlatSeq(_, _, _, _), FlatRep(_, _, _, _, _)
Ends(n, s, i) ==
  CASE n.k = "set" -> IF i <= Len(s) /\ s[i] \in n.s THEN <<i + 1>> ELSE <<>>
    [] n.k = "seq" -> EndsSeq(n.a, 1, s, i)
    [] n.k = "alt" -> EndsAlt(n.a, 1, s, i)
    [] n.k = "rep" -> EndsRep(n, 0, s, i)
EndsSeq(a, j, s, i) ==
  IF j > Len(a) THEN <<i>> ELSE FlatSeq(a, j, s, Ends(a[j], s, i))
FlatSeq(a, j, s, es) ==
  IF es = <<>> THEN <<>>
  ELSE EndsSeq(a, j + 1, s, Head(es)) \o FlatSeq(a, j, s, Tail(es))
EndsAlt(a, j, s, i) ==
  IF j > Len(a) THEN <<>> ELSE Ends(a[j], s, i) \o EndsAlt(a, j + 1, s, i)
EndsRep(n, c, s, i) ==
  (IF n.hi = -1 \/ c < n.hi THEN FlatRep(n, c, s, i, Ends(n.n, s, i)) ELSE <<>>)
  \o (IF c >= n.lo THEN <<i>> ELSE <<>>)
FlatRep(n, c, s, i, es) ==
  IF es = <<>> THEN <<>>
  ELSE (IF Head(es) = i THEN <<>> ELSE EndsRep(n, c + 1, s, Head(es)))
       \o FlatRep(n, c, s, i, Tail(es))

\* re.search(p, s) from position i on: the leftmost match, [start, end) 1-based;
\* start = 0 when there is none
NoMatch == [start |-> 0, end |-> 0]
RECURSIVE SearchFrom(_, _, _)
SearchFrom(p, s, i) ==
  IF i > Len(s) + 1 THEN NoMatch
  ELSE LET es == Ends(p, s, i)
       IN IF es # <<>> THEN [start |-> i, end |-> Head(es)] ELSE SearchFrom(p, s, i + 1)
Search(p, s) == SearchFrom(p, s, 1)
Matches(p, s) == Search(p, s).start > 0
\* match.group(0)
Group0(s, m) == SubSeq(s, m.start, m.end - 1)

\* [m.group(0) for m in re.finditer(p, s)]: the successive non-overlapping matches
RECURSIVE FindIter(_, _, _)
FindIter(p, s, i) ==
  LET m == SearchFrom(p, s, i)
  IN IF m.start = 0 THEN <<>>
     ELSE <<Group0(s, m)>> \o FindIter(p, s, IF m.end = m.start THEN m.end + 1 ELSE m.end)


\* int(digits)
RECURSIVE ToInt(_)
ToInt(d) ==
  IF d = <<>> THEN 0
  ELSE 10 * ToInt(SubSeq(d, 1, Len(d) - 1))
       + ((CHOOSE i \in 1..10 : DigitSeq[i] = d[Len(d)]) - 1)

\* ------------------------------------------------------ is_valid_product

\* recommender.py:124
brands == <<
  <<"s","a","m","s","u","n","g">>, <<"a","p","p","l","e">>, <<"s","o","n","y">>, <<"l","g">>, <<"m","i","c","r","o","s","o","f","t">>, <<"d","e","l","l">>, <<"h","p">>,
  <<"l","e","n","o","v","o">>, <<"a","s","u","s">>, <<"a","c","e","r">>, <<"a","l","i","e","n","w","a","r","e">>, <<"m","s","i">>, <<"g","i","g","a","b","y","t","e">>, <<"d","y","s","o","n">>,
  <<"i","n","t","e","l">>, <<"a","m","d">>, <<"n","v","i","d","i","a">>, <<"c","o","r","s","a","i","r">>, <<"l","o","g","i","t","e","c","h">>, <<"r","a","z","e","r">>, <<"b","o","s","e">>,
  <<"s","o","n","y">>, <<"j","b","l">>, <<"s","h","u","r","e">>, <<"s","h","a","r","k">>, <<"b","o","s","c","h">>, <<"m","i","e","l","e">>, <<"c","a","n","o","n">>, <<"n","i","k","o","n">> >>

\* recommender.py:175
valid_arc_models == {770, 750, 580, 380, 350, 325, 310}
\* recommender.py:202
system_terms == <<<<"s","y","s","t","e","m">>, <<"d","e","s","k","t","o","p">>, <<"t","o","w","e","r">>, <<"p","c">>, <<"c","o","m","p","u","t","e","r">>, <<"g","a","m","i","n","g"," ","p","c">>>>
\* recommender.py:207
prebuilt_brands == <<
  <<"a","l","i","e","n","w","a","r","e">>, <<"h","p"," ","o","m","e","n">>, <<"c","o","r","s","a","i","r">>, <<"l","e","n","o","v","o"," ","l","e","g","i","o","n">>, <<"a","s","u","s"," ","r","o","g">>, <<"m","s","i">>,
  <<"a","c","e","r"," ","p","r","e","d","a","t","o","r">> >>
\* recommender.py:219
component_terms == <<
  <<"r","y","z","e","n">>, <<"c","o","r","e"," ","i">>, <<"i","n","t","e","l">>, <<"p","r","o","c","e","s","s","o","r">>, <<"g","p","u">>, <<"c","a","r","d">>, <<"r","a","m">> >>
\* recommender.py:229
ownership_terms == <<
  <<"i"," ","b","o","u","g","h","t">>, <<"i"," ","o","w","n">>, <<"i"," ","u","s","e">>, <<"i"," ","h","a","v","e">>, <<"p","u","r","c","h","a","s","e","d">>, <<"u","s","i","n","g">> >>
\* recommender.py:240
recommend_terms == <<
  <<"r","e","c","o","m","m","e","n","d">>, <<"s","u","g","g","e","s","t","e","d">>, <<"b","e","s","t">>, <<"t","o","p">>, <<"g","r","e","a","t">>, <<"e","x","c","e","l","l","e","n","t">> >>

\* r'[A-Z][a-z]+'
re_capitalized == RSeq(<<RSet(UpperSet), RPlus(RSet(LowerSet))>>)
\* r'(rtx|gtx|radeon rx|arc)\s*[a-b]?\d{3,4}'
re_is_gpu ==
  RSeq(<<RAlt(<<RLit(<<"r","t","x">>), RLit(<<"g","t","x">>), RLit(<<"r","a","d","e","o","n"," ","r","x">>), RLit(<<"a","r","c">>)>>),
         RStar(RSet(Space)), ROpt(RSet({"a", "b"})), RRep(RSet(Digit), 3, 4)>>)
\* r'(rtx|gtx)\s*(\d{4})'
re_nvidia ==
  RSeq(<<RAlt(<<RLit(<<"r","t","x">>), RLit(<<"g","t","x">>)>>), RStar(RSet(Space)), RRep(RSet(Digit), 4, 4)>>)
\* r'arc\s*([a-z])?(\d{3})'
re_intel ==
  RSeq(<<RLit(<<"a","r","c">>), RStar(RSet(Space)), ROpt(RSet(LowerSet)), RRep(RSet(Digit), 3, 3)>>)
\* r'(radeon rx|rx)\s*(\d{4})'
re_amd ==
  RSeq(<<RAlt(<<RLit(<<"r","a","d","e","o","n"," ","r","x">>), RLit(<<"r","x">>)>>), RStar(RSet(Space)),
         RRep(RSet(Digit), 4, 4)>>)
\* r'(rtx|gtx|radeon)\s*\d{4}'
re_standalone_gpu ==
  RSeq(<<RAlt(<<RLit(<<"r","t","x">>), RLit(<<"g","t","x">>), RLit(<<"r","a","d","e","o","n">>)>>), RStar(RSet(Space)),
         RRep(RSet(Digit), 4, 4)>>)
\* r'(system|desktop|tower|pc|computer|gaming pc)'
re_system_words ==
  RAlt(<<RLit(<<"s","y","s","t","e","m">>), RLit(<<"d","e","s","k","t","o","p">>), RLit(<<"t","o","w","e","r">>), RLit(<<"p","c">>),
         RLit(<<"c","o","m","p","u","t","e","r">>), RLit(<<"g","a","m","i","n","g"," ","p","c">>)>>)

\* One check of is_valid_product: what it adds to confidence_score and to reason.
Delta(points, why) == [score |-> points, reason |-> why]
NoDelta == Delta(0, <<>>)
RECURSIVE SumDeltas(_)
SumDeltas(ds) ==
  IF ds = <<>> THEN NoDelta
  ELSE LET r == SumDeltas(Tail(ds))
       IN Delta(Head(ds).score + r.score, Head(ds).reason \o r.reason)

\* a check 1 that takes nothing from a short name
NoLengthCheck(product_name) == Delta(1, <<>>)
\* 1. sufficient length
CheckLength(product_name) ==
  IF Len(product_name) < 6
  THEN Delta(-3, <<"Too short for a complete product name">>)
  ELSE Delta(1, <<>>)

\* 2. letters and numbers
CheckLettersNumbers(product_name) ==
  LET has_letters == \E i \in DOMAIN product_name : product_name[i] \in Letter
      has_numbers == \E i \in DOMAIN product_name : product_name[i] \in Digit
  IN IF has_letters /\ has_numbers THEN Delta(2, <<"Contains both letters and numbers">>)
     ELSE IF ~has_numbers THEN Delta(-1, <<"Missing model numbers">>)
     ELSE NoDelta

\* 3. brand + model pattern
\* a brand check that says nothing when it finds no brand
BrandOrSilence(product_name) ==
  IF AnyIn(brands, lower(product_name)) THEN Delta(2, <<"Contains known brand name">>)
  ELSE IF Matches(re_capitalized, product_name)
  THEN Delta(1, <<"Contains capitalized brand-like words">>)
  ELSE Delta(-1, <<>>)
CheckBrand(product_name) ==
  IF AnyIn(brands, lower(product_name)) THEN Delta(2, <<"Contains known brand name">>)
  ELSE IF Matches(re_capitalized, product_name)
       THEN Delta(1, <<"Contains capitalized brand-like words">>)
       ELSE Delta(-1, <<"No identifiable brand">>)

\* 4. graphics / gpu / gaming product types
CheckNvidia(product_lower) ==
  LET nvidia_match == Search(re_nvidia, product_lower)
      model_num == ToInt(SubSeq(product_lower, nvidia_match.end - 4, nvidia_match.end - 1))
  IN IF nvidia_match.start = 0 THEN NoDelta
     ELSE IF model_num >= 5000
          THEN Delta(-3, <<"Likely future/non-existent NVIDIA GPU model">>)
          ELSE Delta(2, <<"Valid NVIDIA GPU model number range">>)

CheckIntelArc(product_lower) ==
  LET intel_match == Search(re_intel, product_lower)
      digits_at == intel_match.end - 3
      \* group(1): the letter between "arc\s*" and the three digits, when there is one
      has_series == /\ digits_at - 1 >= intel_match.start + 3
                    /\ product_lower[digits_at - 1] \in LowerSet
      series == IF has_series THEN UpperChar(product_lower[digits_at - 1]) ELSE ""
      model_num == ToInt(SubSeq(product_lower, digits_at, intel_match.end - 1))
  IN IF intel_match.start = 0 THEN NoDelta
     ELSE IF has_series /\ series # "A"
          THEN Delta(-3, <<"Likely non-existent Intel Arc series">>)
     ELSE IF ~has_series
          THEN Delta(-1, <<"Missing Intel Arc series letter (should be A-series)">>)
     ELSE IF model_num \notin valid_arc_models
          THEN Delta(-2, <<"Unusual Intel Arc model number">>)
          ELSE Delta(2, <<"Valid Intel Arc GPU model">>)

CheckAmd(product_lower) ==
  LET amd_match == Search(re_amd, product_lower)
      model_num == ToInt(SubSeq(product_lower, amd_match.end - 4, amd_match.end - 1))
  IN IF amd_match.start = 0 THEN NoDelta
     ELSE IF model_num >= 8000
          THEN Delta(-3, <<"Likely future/non-existent AMD GPU model">>)
          ELSE Delta(2, <<"Valid AMD GPU model number range">>)

CheckGpu(product_lower) ==
  IF Matches(re_is_gpu, product_lower)
  THEN SumDeltas(<<CheckNvidia(product_lower), CheckIntelArc(product_lower),
                   CheckAmd(product_lower),
                   IF Contains(product_lower, <<"g","b">>)
                   THEN Delta(1, <<"Includes memory specification">>) ELSE NoDelta>>)
  ELSE NoDelta

\* 4. computer / pc / desktop product types
CheckSystem(product_name, product_lower) ==
  LET no_system_word == ~Matches(re_system_words, product_lower)
  IN SumDeltas(<<
       IF AnyIn(system_terms, product_lower)
       THEN Delta(2, <<"Contains system-level terms">>) ELSE NoDelta,
       IF AnyIn(prebuilt_brands, product_lower)
       THEN Delta(3, <<"Known prebuilt system brand">>) ELSE NoDelta,
       IF Matches(re_standalone_gpu, product_lower) /\ no_system_word /\ Len(product_name) < 20
       THEN Delta(-3, <<"Appears to be just a GPU, not a complete system">>) ELSE NoDelta,
       IF AnyIn(component_terms, product_lower) /\ Len(product_name) < 15 /\ no_system_word
       THEN Delta(-2, <<"Appears to be just a component, not a complete system">>)
       ELSE NoDelta >>)

\* 4. product-specific validation: the if / elif on product_type_lower
CheckProductType(product_name, product_type) ==
  LET product_lower == lower(product_name)
      product_type_lower == lower(product_type)
  IN IF \/ Contains(product_type_lower, <<"g","r","a","p","h","i","c","s">>)
        \/ Contains(product_type_lower, <<"g","p","u">>)
        \/ Contains(product_type_lower, <<"g","a","m","i","n","g">>)
     THEN CheckGpu(product_lower)
     ELSE IF \/ Contains(product_type_lower, <<"c","o","m","p","u","t","e","r">>)
             \/ Contains(product_type_lower, <<"p","c">>)
             \/ Contains(product_type_lower, <<"d","e","s","k","t","o","p">>)
             \/ Contains(product_type_lower, <<"g","a","m","i","n","g"," ","p","c">>)
          THEN CheckSystem(product_name, product_lower)
          ELSE NoDelta

\* 5. context-based validation
\* an ownership check that does not look where the phrase stands: +3 when the
\* context holds an ownership phrase and the name
OwnershipAnywhere(product_name, context_text) ==
  IF /\ AnyIn(ownership_terms, lower(context_text))
     /\ Find(lower(context_text), lower(product_name)) >= 0
  THEN Delta(3, <<"Product mentioned in ownership context">>) ELSE NoDelta
CheckOwnership(product_name, context_text) ==
  LET product_lower == lower(product_name)
      context_lower == lower(context_text)
      product_index == Find(context_lower, product_lower)
      pre_text == Slice(context_lower, Max(0, product_index - 50), product_index)
  IN IF /\ AnyIn(ownership_terms, context_lower)
        /\ product_index >= 0
        /\ AnyIn(ownership_terms, pre_text)
     THEN Delta(3, <<"Product mentioned in ownership context">>) ELSE NoDelta

CheckRecommendation(context_text) ==
  IF AnyIn(recommend_terms, lower(context_text))
  THEN Delta(1, <<"Product mentioned in recommendation context">>) ELSE NoDelta

CheckContext(product_name, context_text) ==
  IF context_text # <<>>
  THEN SumDeltas(<<CheckOwnership(product_name, context_text),
                   CheckRecommendation(context_text)>>)
  ELSE NoDelta

\* is_valid_product(product_name, context_text, product_type)
\*   -> (is_valid, confidence_score, reason)
is_valid_product(product_name, context_text, product_type) ==
  LET total == SumDeltas(<<CheckLength(product_name),
                           CheckLettersNumbers(product_name),
                           CheckBrand(product_name),
                           CheckProductType(product_name, product_type),
                           CheckContext(product_name, context_text)>>)
  IN [is_valid |-> total.score >= 3,
      confidence_score |-> total.score,
      reason |-> total.reason]


\* ------------------------------------------------ extract_model_from_text

\* \w, \d, \s+ and "one more word" pieces of the pattern tables
W == RSet(Word)
D == RSet(Digit)
Ws == RPlus(RSet(Space))
\* (?:\s+\w+)
SpaceWord == RSeq(<<Ws, RPlus(W)>>)
\* (?:[- ]\w+)
DashWord == RSeq(<<RSet({"-", " "}), RPlus(W)>>)
\* (?: Pro)? written with \s+ : (?:\s+Pro)?
OptSuffix(str) == ROpt(RSeq(<<Ws, RLitI(str)>>))
\* r'(Brand \w+(?:\s+\w+){0,3})'
BrandWords03(brand) == RSeq(<<RLitI(brand), RLitI(<<" ">>), RPlus(W), RRep(SpaceWord, 0, 3)>>)
\* r'(Brand \w+(?:[- ]\w+){0,3})'
BrandDash03(brand) == RSeq(<<RLitI(brand), RLitI(<<" ">>), RPlus(W), RRep(DashWord, 0, 3)>>)
\* r'(Brand (?:A|B|C) \w+(?:[- ]\w+)*)'
BrandLine(brand, lines) ==
  RSeq(<<RLitI(brand), RLitI(<<" ">>), RAlt([i \in DOMAIN lines |-> RLitI(lines[i])]),
         RLitI(<<" ">>), RPlus(W), RStar(DashWord)>>)

\* recommender.py:484
phone_model_patterns == <<
  \* r'(iPhone \d+(?:\s+Pro)?(?:\s+Max)?)'
  RSeq(<<RLitI(<<"i","P","h","o","n","e"," ">>), RPlus(D), OptSuffix(<<"P","r","o">>), OptSuffix(<<"M","a","x">>)>>),
  \* r'(Samsung Galaxy S\d+(?:\s+Ultra)?)'
  RSeq(<<RLitI(<<"S","a","m","s","u","n","g"," ","G","a","l","a","x","y"," ","S">>), RPlus(D), OptSuffix(<<"U","l","t","r","a">>)>>),
  \* r'(Google Pixel \d+(?:\s+Pro)?)'
  RSeq(<<RLitI(<<"G","o","o","g","l","e"," ","P","i","x","e","l"," ">>), RPlus(D), OptSuffix(<<"P","r","o">>)>>),
  \* r'(OnePlus \d+(?:\s+Pro)?)'
  RSeq(<<RLitI(<<"O","n","e","P","l","u","s"," ">>), RPlus(D), OptSuffix(<<"P","r","o">>)>>),
  \* r'(Xiaomi Mi \d+)'
  RSeq(<<RLitI(<<"X","i","a","o","m","i"," ","M","i"," ">>), RPlus(D)>>),
  \* r'(Motorola \w+ \d+)'
  RSeq(<<RLitI(<<"M","o","t","o","r","o","l","a"," ">>), RPlus(W), RLitI(<<" ">>), RPlus(D)>>) >>

\* recommender.py:493
vacuum_model_patterns == <<
  \* r'(Dyson V\d+(?:\s+\w+)?)'
  RSeq(<<RLitI(<<"D","y","s","o","n"," ","V">>), RPlus(D), ROpt(SpaceWord)>>),
  \* r'(Shark Navigator(?:\s+\w+)*)'
  RSeq(<<RLitI(<<"S","h","a","r","k"," ","N","a","v","i","g","a","t","o","r">>), RStar(SpaceWord)>>),
  \* r'(Miele Complete(?:\s+\w+)*)'
  RSeq(<<RLitI(<<"M","i","e","l","e"," ","C","o","m","p","l","e","t","e">>), RStar(SpaceWord)>>),
  BrandWords03(<<"B","i","s","s","e","l","l">>), BrandWords03(<<"H","o","o","v","e","r">>),
  BrandWords03(<<"T","i","n","e","c","o">>), BrandWords03(<<"E","u","r","e","k","a">>) >>

\* recommender.py:503
laptop_model_patterns == <<
  \* r'(MacBook (?:Air|Pro)(?: \d+)?(?:-inch)?)'
  RSeq(<<RLitI(<<"M","a","c","B","o","o","k"," ">>), RAlt(<<RLitI(<<"A","i","r">>), RLitI(<<"P","r","o">>)>>),
         ROpt(RSeq(<<RLitI(<<" ">>), RPlus(D)>>)), ROpt(RLitI(<<"-","i","n","c","h">>))>>),
  \* r'(Dell XPS \d+)'
  RSeq(<<RLitI(<<"D","e","l","l"," ","X","P","S"," ">>), RPlus(D)>>),
  BrandLine(<<"H","P">>, <<<<"S","p","e","c","t","r","e">>, <<"E","n","v","y">>, <<"P","a","v","i","l","i","o","n">>, <<"E","l","i","t","e","B","o","o","k">>>>),
  BrandLine(<<"L","e","n","o","v","o">>, <<<<"T","h","i","n","k","P","a","d">>, <<"Y","o","g","a">>, <<"L","e","g","i","o","n">>, <<"I","d","e","a","P","a","d">>>>),
  BrandLine(<<"A","S","U","S">>, <<<<"Z","e","n","B","o","o","k">>, <<"V","i","v","o","B","o","o","k">>, <<"R","O","G">>, <<"T","U","F">>>>),
  BrandLine(<<"A","c","e","r">>, <<<<"A","s","p","i","r","e">>, <<"P","r","e","d","a","t","o","r">>, <<"S","w","i","f","t">>, <<"N","i","t","r","o">>>>),
  \* r'(Microsoft Surface (?:Laptop|Book|Pro) \d+)'
  RSeq(<<RLitI(<<"M","i","c","r","o","s","o","f","t"," ","S","u","r","f","a","c","e"," ">>), RAlt(<<RLitI(<<"L","a","p","t","o","p">>), RLitI(<<"B","o","o","k">>), RLitI(<<"P","r","o">>)>>),
         RLitI(<<" ">>), RPlus(D)>>) >>

\* recommender.py:513
headphone_model_patterns == <<
  \* r'(Sony WH-\d+XM\d+)'
  RSeq(<<RLitI(<<"S","o","n","y"," ","W","H","-">>), RPlus(D), RLitI(<<"X","M">>), RPlus(D)>>),
  \* r'(Bose QuietComfort \d+)'
  RSeq(<<RLitI(<<"B","o","s","e"," ","Q","u","i","e","t","C","o","m","f","o","r","t"," ">>), RPlus(D)>>),
  \* r'(Apple AirPods(?: Pro| Max)?)'
  RSeq(<<RLitI(<<"A","p","p","l","e"," ","A","i","r","P","o","d","s">>), ROpt(RAlt(<<RLitI(<<" ","P","r","o">>), RLitI(<<" ","M","a","x">>)>>))>>),
  \* r'(Sennheiser (?:HD|Momentum) \d+(?:[- ]\w+)*)'
  RSeq(<<RLitI(<<"S","e","n","n","h","e","i","s","e","r"," ">>), RAlt(<<RLitI(<<"H","D">>), RLitI(<<"M","o","m","e","n","t","u","m">>)>>), RLitI(<<" ">>),
         RPlus(D), RStar(DashWord)>>),
  \* r'(Jabra Elite \d+[tT]?)'
  RSeq(<<RLitI(<<"J","a","b","r","a"," ","E","l","i","t","e"," ">>), RPlus(D), ROpt(RSet({"t", "T"}))>>),
  \* r'(Audio-Technica ATH-\w+)'
  RSeq(<<RLitI(<<"A","u","d","i","o","-","T","e","c","h","n","i","c","a"," ","A","T","H","-">>), RPlus(W)>>),
  \* r'(Beats(?: By Dre)? \w+(?:[- ]\w+)*)'
  RSeq(<<RLitI(<<"B","e","a","t","s">>), ROpt(RLitI(<<" ","B","y"," ","D","r","e">>)), RLitI(<<" ">>), RPlus(W), RStar(DashWord)>>) >>

\* recommender.py:523
monitor_model_patterns == <<
  BrandLine(<<"L","G">>, <<<<"U","l","t","r","a","G","e","a","r">>, <<"U","l","t","r","a","W","i","d","e">>>>),
  BrandLine(<<"S","a","m","s","u","n","g">>, <<<<"O","d","y","s","s","e","y">>, <<"V","i","e","w","F","i","n","i","t","y">>>>),
  BrandLine(<<"A","S","U","S">>, <<<<"R","O","G">>, <<"P","r","o","A","r","t">>, <<"T","U","F">>>>),
  BrandLine(<<"D","e","l","l">>, <<<<"A","l","i","e","n","w","a","r","e">>, <<"U","l","t","r","a","S","h","a","r","p">>>>),
  BrandDash03(<<"B","e","n","Q">>),
  BrandLine(<<"A","c","e","r">>, <<<<"P","r","e","d","a","t","o","r">>, <<"N","i","t","r","o">>>>),
  BrandDash03(<<"M","S","I">>),
  BrandDash03(<<"V","i","e","w","S","o","n","i","c">>) >>

\* recommender.py:535, under re.IGNORECASE ([A-Z] is any letter):
\* r'([A-Z][a-zA-Z0-9]+ [A-Z0-9][a-zA-Z0-9]+(?:[- ][A-Z0-9][a-zA-Z0-9]+){0,3})'
Alnum == Letter \cup Digit
generic_model_patterns == <<
  RSeq(<<RSet(Letter), RPlus(RSet(Alnum)), RSet({" "}), RSet(Alnum), RPlus(RSet(Alnum)),
         RRep(RSeq(<<RSet({"-", " "}), RSet(Alnum), RPlus(RSet(Alnum))>>), 0, 3)>>) >>

\* r'[A-Z][a-zA-Z0-9]+(?:\s+[A-Z0-9][a-zA-Z0-9]+){1,3}' (case-sensitive)
re_capitalized_words ==
  RSeq(<<RSet(UpperSet), RPlus(RSet(Alnum)),
         RRep(RSeq(<<Ws, RSet(UpperSet \cup Digit), RPlus(RSet(Alnum))>>), 1, 3)>>)

\* the if / elif chain that picks the pattern table
PatternsFor(product_type_lower) ==
  IF Contains(product_type_lower, <<"p","h","o","n","e">>) \/ Contains(product_type_lower, <<"s","m","a","r","t","p","h","o","n","e">>)
  THEN phone_model_patterns
  ELSE IF Contains(product_type_lower, <<"v","a","c","u","u","m">>) THEN vacuum_model_patterns
  ELSE IF Contains(product_type_lower, <<"l","a","p","t","o","p">>) THEN laptop_model_patterns
  ELSE IF Contains(product_type_lower, <<"h","e","a","d","p","h","o","n","e">>) THEN headphone_model_patterns
  ELSE IF Contains(product_type_lower, <<"m","o","n","i","t","o","r">>) THEN monitor_model_patterns
  ELSE generic_model_patterns

\* for pattern in patterns: the first pattern with a match returns its first match
RECURSIVE FirstPatternMatch(_, _, _)
FirstPatternMatch(patterns, k, text) ==
  IF k > Len(patterns) THEN NoMatch
  ELSE LET m == Search(patterns[k], text)
       IN IF m.start > 0 THEN m ELSE FirstPatternMatch(patterns, k + 1, text)

\* extract_model_from_text(text, product_type) -> str or None; None is <<>> here
\* (the caller tests "if model_name", and no match is empty)
extract_model_from_text(text, product_type) ==
  LET product_type_lower == lower(product_type)
      m == FirstPatternMatch(PatternsFor(product_type_lower), 1, text)
      product_mention_index == Find(lower(text), product_type_lower)
      lo == Max(0, product_mention_index - 30)
      surrounding_text == Slice(text, lo, Min(Len(text), product_mention_index + 50))
      cap == Search(re_capitalized_words, surrounding_text)
  IN IF m.start > 0 THEN Strip(Group0(text, m))
     ELSE IF product_mention_index # -1 /\ cap.start > 0
          THEN Strip(Group0(surrounding_text, cap))
          ELSE <<>>

\* --------------------------------------- utils.regex_extract_product_models

\* utils.py:104
phone_patterns == <<
  \* r'iPhone\s+\d+(\s+Pro)?(\s+Max)?'
  RSeq(<<RLitI(<<"i","P","h","o","n","e">>), Ws, RPlus(D), OptSuffix(<<"P","r","o">>), OptSuffix(<<"M","a","x">>)>>),
  \* r'Samsung\s+Galaxy\s+S\d+(\s+Ultra)?'
  RSeq(<<RLitI(<<"S","a","m","s","u","n","g">>), Ws, RLitI(<<"G","a","l","a","x","y">>), Ws, RLitI(<<"S">>), RPlus(D), OptSuffix(<<"U","l","t","r","a">>)>>),
  \* r'Google\s+Pixel\s+\d+(\s+Pro)?'
  RSeq(<<RLitI(<<"G","o","o","g","l","e">>), Ws, RLitI(<<"P","i","x","e","l">>), Ws, RPlus(D), OptSuffix(<<"P","r","o">>)>>),
  \* r'OnePlus\s+\d+(\s+Pro)?'
  RSeq(<<RLitI(<<"O","n","e","P","l","u","s">>), Ws, RPlus(D), OptSuffix(<<"P","r","o">>)>>),
  \* r'Xiaomi\s+Mi\s+\d+'
  RSeq(<<RLitI(<<"X","i","a","o","m","i">>), Ws, RLitI(<<"M","i">>), Ws, RPlus(D)>>),
  \* r'Motorola\s+\w+\s+\d+'
  RSeq(<<RLitI(<<"M","o","t","o","r","o","l","a">>), Ws, RPlus(W), Ws, RPlus(D)>>) >>

\* r'Brand\s+\w+(\s+\w+){lo,hi}'
BrandSpaced(brand, lo, hi) == RSeq(<<RLitI(brand), Ws, RPlus(W), RRep(SpaceWord, lo, hi)>>)

\* utils.py:114
vacuum_patterns == <<
  \* r'Dyson\s+V\d+(\s+\w+)?'
  RSeq(<<RLitI(<<"D","y","s","o","n">>), Ws, RLitI(<<"V">>), RPlus(D), ROpt(SpaceWord)>>),
  \* r'Shark\s+\w+(\s+\w+)*', r'Miele\s+\w+(\s+\w+)*'
  BrandSpaced(<<"S","h","a","r","k">>, 0, -1), BrandSpaced(<<"M","i","e","l","e">>, 0, -1),
  \* r'Bissell\s+\w+(\s+\w+){0,3}' and the like
  BrandSpaced(<<"B","i","s","s","e","l","l">>, 0, 3), BrandSpaced(<<"H","o","o","v","e","r">>, 0, 3),
  BrandSpaced(<<"T","i","n","e","c","o">>, 0, 3), BrandSpaced(<<"E","u","r","e","k","a">>, 0, 3) >>

\* utils.py:131 (case-sensitive)
\* r'([A-Z][a-zA-Z0-9]+ [A-Z0-9][a-zA-Z0-9]+(?:[- ][A-Z0-9][a-zA-Z0-9]+){0,2})'
generic_pattern ==
  RSeq(<<RSet(UpperSet), RPlus(RSet(Alnum)), RSet({" "}), RSet(UpperSet \cup Digit),
         RPlus(RSet(Alnum)),
         RRep(RSeq(<<RSet({"-", " "}), RSet(UpperSet \cup Digit), RPlus(RSet(Alnum))>>), 0, 2)>>)

StripAll(ss) == [i \in DOMAIN ss |-> Strip(ss[i])]
InSeq(x, ss) == \E i \in DOMAIN ss : ss[i] = x

\* for pattern in all_patterns: products.append(match.group(0).strip()) for every match
RECURSIVE AllPatternMatches(_, _, _)
AllPatternMatches(patterns, k, text) ==
  IF k > Len(patterns) THEN <<>>
  ELSE StripAll(FindIter(patterns[k], text, 1)) \o AllPatternMatches(patterns, k + 1, text)

\* for match in re.finditer(generic_pattern, text):
\*     if match.group(0) not in products: products.append(match.group(0).strip())
RECURSIVE AppendNew(_, _)
AppendNew(products, found) ==
  IF found = <<>> THEN products
  ELSE AppendNew(IF InSeq(Head(found), products) THEN products
                 ELSE Append(products, Strip(Head(found))), Tail(found))

regex_extract_product_models(text) ==
  AppendNew(AllPatternMatches(phone_patterns \o vacuum_patterns, 1, text),
            FindIter(generic_pattern, text, 1))


\* ------------------------------------------------------------- numbers
\* A Python float is an exact fraction [n, d] in lowest terms with d > 0, so that
\* equal values are equal records.

RECURSIVE Gcd(_, _)
Gcd(a, b) == IF b = 0 THEN a ELSE Gcd(b, a % b)
Abs(a) == IF a < 0 THEN -a ELSE a
Frac(n, d) == LET g == Gcd(Abs(n), d) IN [n |-> n \div g, d |-> d \div g]
Whole(i) == [n |-> i, d |-> 1]
FAdd(x, y) == Frac(x.n * y.d + y.n * x.d, x.d * y.d)
FMul(x, y) == Frac(x.n * y.n, x.d * y.d)
FLess(x, y) == x.n * y.d < y.n * x.d
FLeq(x, y) == x.n * y.d <= y.n * x.d
FMin(x, y) == IF FLess(y, x) THEN y ELSE x
FMax(x, y) == IF FLess(x, y) THEN y ELSE x

\* 10 ** k
RECURSIVE Pow10(_)
Pow10(k) == IF k = 0 THEN 1 ELSE 10 * Pow10(k - 1)

\* ------------------------------------------------- utils.analyze_sentiment

\* utils.py:207, utils.py:210
positive_terms == <<
  <<"g","o","o","d">>, <<"g","r","e","a","t">>, <<"e","x","c","e","l","l","e","n","t">>, <<"b","e","s","t">>, <<"l","o","v","e">>, <<"r","e","c","o","m","m","e","n","d">>, <<"a","m","a","z","i","n","g">>,
  <<"f","a","n","t","a","s","t","i","c">>, <<"w","o","r","t","h">>, <<"q","u","a","l","i","t","y">>, <<"r","e","l","i","a","b","l","e">>, <<"i","m","p","r","e","s","s","i","v","e">>, <<"p","e","r","f","e","c","t">>,
  <<"a","w","e","s","o","m","e">>, <<"s","a","t","i","s","f","i","e","d">> >>
negative_terms == <<
  <<"b","a","d">>, <<"p","o","o","r">>, <<"t","e","r","r","i","b","l","e">>, <<"w","o","r","s","t">>, <<"h","a","t","e">>, <<"a","v","o","i","d">>, <<"d","i","s","a","p","p","o","i","n","t","i","n","g">>,
  <<"b","r","o","k","e","n">>, <<"w","a","s","t","e">>, <<"r","e","g","r","e","t">>, <<"a","w","f","u","l">>, <<"h","o","r","r","i","b","l","e">>, <<"u","s","e","l","e","s","s">>, <<"f","a","i","l","e","d">>,
  <<"c","h","e","a","p">>, <<"o","v","e","r","p","r","i","c","e","d">> >>

\* sum(1 for term in terms if term in text_lower)
CountIn(terms, text_lower) == Cardinality({k \in DOMAIN terms : Contains(text_lower, terms[k])})

basic_sentiment_analysis(text) ==
  LET text_lower == lower(text)
      positive_count == CountIn(positive_terms, text_lower)
      negative_count == CountIn(negative_terms, text_lower)
      total_count == positive_count + negative_count
  IN IF total_count = 0 THEN Frac(1, 2) ELSE Frac(positive_count, total_count)

\* r'(\d+\.\d+|\d+)'
re_number == RAlt(<<RSeq(<<RPlus(D), RSet({"."}), RPlus(D)>>), RPlus(D)>>)

\* float(digits[.digits])
ToFloat(num) ==
  LET dot == Find(num, <<".">>)
  IN IF dot = -1 THEN Whole(ToInt(num))
     ELSE LET frac_digits == Slice(num, dot + 1, Len(num))
          IN FAdd(Whole(ToInt(Slice(num, 0, dot))),
                  Frac(ToInt(frac_digits), Pow10(Len(frac_digits))))

\* What one call of the chat-completions API does: it raises, or it answers with
\* a text (response.choices[0].message.content).
ApiRaises == [raises |-> TRUE]
ApiAnswers(content) == [raises |-> FALSE, content |-> content]

\* the function without max(0, min(1, ...)): the number of the reply as it is
SentimentUnclamped(text, api_key, api) ==
  IF text = <<>> THEN Frac(1, 2)
  ELSE IF ~api_key \/ api.raises THEN basic_sentiment_analysis(text)
  ELSE LET content == Strip(api.content)
           m == Search(re_number, content)
       IN IF m.start = 0 THEN basic_sentiment_analysis(text) ELSE ToFloat(Group0(content, m))
\* analyze_sentiment(text) with the API key present or not and the API's behaviour
analyze_sentiment(text, api_key, api) ==
  IF text = <<>> THEN Frac(1, 2)
  ELSE IF ~api_key THEN basic_sentiment_analysis(text)
  ELSE IF api.raises THEN basic_sentiment_analysis(text)
  ELSE LET content == Strip(api.content)
           m == Search(re_number, content)
       IN IF m.start = 0 THEN basic_sentiment_analysis(text)
          ELSE FMax(Whole(0), FMin(Whole(1), ToFloat(Group0(content, m))))

\* -------------------------------------------- utils.extract_product_models
\* The answer of the extraction call is kept as what the code reads of it:
\*   parsed    what json.loads(content) gives: "list", "other" (valid JSON that is
\*             no list) or "error" (json.loads raises)
\*   products  that list, when parsed = "list"
\*   bracket   what json.loads of the re.search(r'\[.*\]') match gives: "list",
\*             "other", "error", or "none" when content holds no [...]
\*   inner     that list, when bracket = "list"
\*   brackets  '[' in content and ']' in content
\*   items     content.split('[')[1].split(']')[0].split(','), stripped of blanks
\*             and quotes, the blank ones left out
\* An item of a JSON list that is no string (a number) is the value NotAStr.

NotAStr == <<"int">>
IsStr(x) == \A i \in DOMAIN x : x[i] \in Char

\* content is a JSON array of strings and numbers: ["A", "B"]
JsonList(products) ==
  ApiAnswers([parsed |-> "list", products |-> products, bracket |-> "list",
              inner |-> products, brackets |-> TRUE, items |-> products])
\* content is a JSON object that holds the array: {"products": ["A", "B"]}
JsonObject(products) ==
  ApiAnswers([parsed |-> "other", products |-> <<>>, bracket |-> "list",
              inner |-> products, brackets |-> TRUE, items |-> products])
\* content is prose around a JSON array: Here are the models: ["A", "B"]
ProseWithList(products) ==
  ApiAnswers([parsed |-> "error", products |-> <<>>, bracket |-> "list",
              inner |-> products, brackets |-> TRUE, items |-> products])
\* content is prose with an unquoted bracket list: Models: [A, B]
ProseWithBrackets(products) ==
  ApiAnswers([parsed |-> "error", products |-> <<>>, bracket |-> "error",
              inner |-> <<>>, brackets |-> TRUE, items |-> products])
\* content is prose without brackets: No specific models are mentioned.
ProseOnly ==
  ApiAnswers([parsed |-> "error", products |-> <<>>, bracket |-> "none",
              inner |-> <<>>, brackets |-> FALSE, items |-> <<>>])

\* content is JSON that is no list and holds no bracket: "none", 5, {}
JsonScalar ==
  ApiAnswers([parsed |-> "other", products |-> <<>>, bracket |-> "none",
              inner |-> <<>>, brackets |-> FALSE, items |-> <<>>])

\* How one call of extract_product_models(text) ends: it returns a list at one of
\* the return statements of utils.py:27-89, or an exception leaves it.
Returns(list) == [ends |-> "returns", list |-> list]
Propagates == [ends |-> "raises", list |-> <<>>]
\* the function without its try blocks: the exception of the API call leaves it
ExtractUnguarded(text, api_key, api) ==
  IF text = <<>> THEN Returns(<<>>)
  ELSE IF ~api_key THEN Returns(regex_extract_product_models(text))
  ELSE IF api.raises THEN Propagates
  ELSE Returns(api.content.items)
ExtractCall(text, api_key, api) ==
  IF text = <<>> THEN Returns(<<>>)
  ELSE IF ~api_key THEN Returns(regex_extract_product_models(text))
  ELSE IF api.raises THEN Returns(regex_extract_product_models(text))
  ELSE LET c == api.content
       IN IF c.parsed = "list" THEN Returns(c.products)
          ELSE IF c.parsed = "error" /\ c.bracket = "list" THEN Returns(c.inner)
          ELSE IF c.brackets THEN Returns(c.items)
          ELSE Returns(regex_extract_product_models(text))
\* models = extract_product_models(text)
extract_product_models(text, api_key, api) == ExtractCall(text, api_key, api).list

\* ---------------------------------------------------- generate_description
\* The excerpt generate_description(text, product_model, attributes) builds is kept
\* as the three values it is built from: nothing in the pipeline looks inside it.
generate_description(text, product_model, attributes) ==
  [text |-> text, product_model |-> product_model, attributes |-> attributes]

\* ------------------------------------------------ generate_ai_description
\* a fallback that drops the scraped text: "" when the key is missing or the call fails
EmptyOnFailure(product_name, original_description, product_type, attributes, api_key, api) ==
  IF ~api_key \/ api.raises THEN <<>> ELSE [ai_description |-> Strip(api.content)]
generate_ai_description(product_name, original_description, product_type, attributes, api_key, api) ==
  IF ~api_key THEN original_description
  ELSE IF api.raises THEN original_description
  ELSE [ai_description |-> Strip(api.content)]

\* ------------------------------------- the calls of client.chat.completions.create
\* One invocation of the API: the function that made it, and whether it raised.
Invocation(function, api) == [function |-> function, raised |-> api.raises]
\* a call site in a retry loop: a second invocation when the first one raises
ApiRetry(function, api) ==
  IF api.raises THEN <<Invocation(function, api), Invocation(function, api)>>
  ELSE <<Invocation(function, api)>>
\* response = client.chat.completions.create(...), inside the function's try: the
\* one call site of each of the three functions, outside any loop
ApiTry(function, api) == <<Invocation(function, api)>>
\* the invocations one call of extract_product_models(text) makes (utils.py:27-52)
ExtractInvocations(text, api_key, api) ==
  IF text = <<>> \/ ~api_key THEN <<>> ELSE ApiTry("extract_product_models", api)
\* the invocations one call of analyze_sentiment(text) makes (utils.py:151-177)
SentimentInvocations(text, api_key, api) ==
  IF text = <<>> \/ ~api_key THEN <<>> ELSE ApiTry("analyze_sentiment", api)
\* the invocations one call of generate_ai_description makes (recommender.py:615-643)
DescriptionInvocations(api_key, api) ==
  IF ~api_key THEN <<>> ELSE ApiTry("generate_ai_description", api)


\* ------------------------------------------------ scoring, sort, dedup

\* mention["score"] = ...: the mention with the key "score" set
SetScore(mention, score) == ("score" :> score) @@ mention

\* product_type_terms = [product.lower()] + [attr.lower() for attr in attributes if attr]
RECURSIVE NonEmptyLowered(_)
NonEmptyLowered(attributes) ==
  IF attributes = <<>> THEN <<>>
  ELSE (IF Head(attributes) # <<>> THEN <<lower(Head(attributes))>> ELSE <<>>)
       \o NonEmptyLowered(Tail(attributes))
ProductTypeTerms(product, attributes) == <<lower(product)>> \o NonEmptyLowered(attributes)

\* for term in product_type_terms: if term in product_name: score += 1
RECURSIVE TermBonus(_, _)
TermBonus(terms, product_name) ==
  IF terms = <<>> THEN 0
  ELSE (IF Contains(product_name, Head(terms)) THEN 1 ELSE 0) + TermBonus(Tail(terms), product_name)

\* a validity impact without its cap of 5
UncappedValidity(mention) == Max(0, mention.validity_score)
\* min(5, max(0, mention.get("validity_score", 0)))
ValidityImpact(mention) == Min(5, Max(0, mention.validity_score))

\* recommender.py:347, the body of the scoring loop of process_reddit_data
RedditScore(mention, product_type_terms) ==
  LET base_score == FAdd(FMul(mention.sentiment, Whole(5)),
                         FMin(Whole(5), Frac(mention.upvotes, 10)))
  IN FAdd(base_score,
          Whole(ValidityImpact(mention) * 2
                + TermBonus(product_type_terms, lower(mention.product))
                + (IF Len(mention.product) > 8 THEN 1 ELSE 0)))

\* the video score with the bonus of the forum score for a name of more than 8
\* characters
ScoreWithLengthBonus(mention, product_type_terms) ==
  FAdd(FAdd(FAdd(FMul(mention.sentiment, Whole(3)), FMin(Whole(3), Frac(mention.likes, 100))),
            FMin(Whole(4), Frac(mention.views, 10000))),
       Whole(ValidityImpact(mention) * 2
             + (IF Contains(lower(mention.title), lower(mention.product)) THEN 3 ELSE 0)
             + TermBonus(product_type_terms, lower(mention.product))
             + (IF Len(mention.product) > 8 THEN 1 ELSE 0)))
\* recommender.py:436, the body of the scoring loop of process_youtube_data
YoutubeScore(mention, product_type_terms) ==
  LET base_score == FAdd(FAdd(FMul(mention.sentiment, Whole(3)),
                              FMin(Whole(3), Frac(mention.likes, 100))),
                         FMin(Whole(4), Frac(mention.views, 10000)))
  IN FAdd(base_score,
          Whole(ValidityImpact(mention) * 2
                + (IF Contains(lower(mention.title), lower(mention.product)) THEN 3 ELSE 0)
                + TermBonus(product_type_terms, lower(mention.product))))

\* tuple comparison: k1 < k2, lexicographic, on tuples of numbers of one length
RECURSIVE KeyLess(_, _)
KeyLess(k1, k2) ==
  IF k1 = <<>> THEN FALSE
  ELSE IF FLess(Head(k1), Head(k2)) THEN TRUE
  ELSE IF FLess(Head(k2), Head(k1)) THEN FALSE
  ELSE KeyLess(Tail(k1), Tail(k2))

\* a sort key of the score alone
ScoreAlone(mention) == <<mention.score>>
\* key=lambda x: (x.get("score", 0), x["sentiment"], x["upvotes"])
RedditSortKey(mention) == <<mention.score, mention.sentiment, Whole(mention.upvotes)>>
\* key=lambda x: x.get("score", 0)
ScoreSortKey(mention) == <<mention.score>>

\* list.sort(key=..., reverse=True) on a list of [key, item]: descending, and stable
\* (items of equal key keep their order)
\* an insertion that puts x before the items of equal key: a sort that is not stable
RECURSIVE InsertBeforeEqual(_, _)
InsertBeforeEqual(sorted, x) ==
  IF sorted = <<>> THEN <<x>>
  ELSE IF ~KeyLess(x.key, Head(sorted).key) THEN <<x>> \o sorted
  ELSE <<Head(sorted)>> \o InsertBeforeEqual(Tail(sorted), x)
RECURSIVE InsertDescending(_, _)
InsertDescending(sorted, x) ==
  IF sorted = <<>> THEN <<x>>
  ELSE IF KeyLess(Head(sorted).key, x.key) THEN <<x>> \o sorted
  ELSE <<Head(sorted)>> \o InsertDescending(Tail(sorted), x)
\* a sort that leaves the list as it is
Unsorted(sorted, rest) == sorted \o rest
RECURSIVE SortDescending(_, _)
SortDescending(sorted, rest) ==
  IF rest = <<>> THEN sorted
  ELSE SortDescending(InsertDescending(sorted, Head(rest)), Tail(rest))
Items(keyed) == [i \in DOMAIN keyed |-> keyed[i].item]

SortReddit(mentions) ==
  Items(SortDescending(<<>>, [i \in DOMAIN mentions |->
                               [key |-> RedditSortKey(mentions[i]), item |-> mentions[i]]]))
SortByScore(mentions) ==
  Items(SortDescending(<<>>, [i \in DOMAIN mentions |->
                               [key |-> ScoreSortKey(mentions[i]), item |-> mentions[i]]]))

\* re.sub(r'[^a-zA-Z0-9]', '', mention["product"].lower())
RedditProductKey(mention) == FilterChars(lower(mention.product), Alnum)
\* mention["product"].lower().strip()
YoutubeProductKey(mention) == Strip(lower(mention.product))

\* unique_products: a dict, kept as its (key, value) pairs in insertion order.
\*   if product_key not in unique_products or score > unique_products[product_key].score:
\*       unique_products[product_key] = mention
DictIndex(dict, key) ==
  IF \E i \in DOMAIN dict : dict[i].key = key
  THEN CHOOSE i \in DOMAIN dict : dict[i].key = key ELSE 0
\* the update without its score comparison: the mention seen last stays
KeepLatest(unique_products, product_key, mention) ==
  LET at == DictIndex(unique_products, product_key)
  IN IF at = 0 THEN Append(unique_products, [key |-> product_key, value |-> mention])
     ELSE [unique_products EXCEPT ![at].value = mention]
KeepHighest(unique_products, product_key, mention) ==
  LET at == DictIndex(unique_products, product_key)
  IN IF at = 0 THEN Append(unique_products, [key |-> product_key, value |-> mention])
     ELSE IF FLess(unique_products[at].value.score, mention.score)
          THEN [unique_products EXCEPT ![at].value = mention]
          ELSE unique_products
Values(dict) == [i \in DOMAIN dict |-> dict[i].value]

RECURSIVE RedditUnique(_, _)
RedditUnique(unique_products, mentions) ==
  IF mentions = <<>> THEN unique_products
  ELSE RedditUnique(KeepHighest(unique_products, RedditProductKey(Head(mentions)), Head(mentions)),
                    Tail(mentions))
RECURSIVE YoutubeUnique(_, _)
YoutubeUnique(unique_products, mentions) ==
  IF mentions = <<>> THEN unique_products
  ELSE YoutubeUnique(KeepHighest(unique_products, YoutubeProductKey(Head(mentions)), Head(mentions)),
                     Tail(mentions))

\* recommender.py:346-384: score, sort and deduplicate the forum mentions
RedditScored(product_mentions, product, attributes) ==
  [i \in DOMAIN product_mentions |->
     SetScore(product_mentions[i],
              RedditScore(product_mentions[i], ProductTypeTerms(product, attributes)))]
RedditRanked(product_mentions, product, attributes) ==
  Values(RedditUnique(<<>>, SortReddit(RedditScored(product_mentions, product, attributes))))

\* recommender.py:435-467: score, sort and deduplicate the video mentions
YoutubeScored(product_mentions, product, attributes) ==
  [i \in DOMAIN product_mentions |->
     SetScore(product_mentions[i],
              YoutubeScore(product_mentions[i], ProductTypeTerms(product, attributes)))]
YoutubeRanked(product_mentions, product, attributes) ==
  Values(YoutubeUnique(<<>>, SortByScore(YoutubeScored(product_mentions, product, attributes))))


\* ------------------------------------------------- format_recommendation

None == [none |-> TRUE]

\* recommender.py:680
system_search_terms == <<<<"c","o","m","p","u","t","e","r">>, <<"p","c">>, <<"d","e","s","k","t","o","p">>, <<"g","a","m","i","n","g"," ","p","c">>, <<"l","a","p","t","o","p">>>>
\* recommender.py:700
filter_component_terms == <<
  <<"r","y","z","e","n">>, <<"c","o","r","e"," ","i">>, <<"i","n","t","e","l">>, <<"a","m","d">>, <<"p","r","o","c","e","s","s","o","r">>, <<"c","p","u">>, <<"g","p","u">>, <<"c","a","r","d">>,
  <<"r","a","m">>, <<"m","e","m","o","r","y">> >>
\* recommender.py:705
system_brands == <<
  <<"a","l","i","e","n","w","a","r","e">>, <<"h","p"," ","o","m","e","n">>, <<"d","e","l","l"," ","x","p","s">>, <<"l","e","n","o","v","o"," ","l","e","g","i","o","n">>, <<"a","s","u","s"," ","r","o","g">>, <<"c","o","r","s","a","i","r">>,
  <<"m","s","i">>, <<"a","c","e","r"," ","p","r","e","d","a","t","o","r">>, <<"i","b","u","y","p","o","w","e","r">>, <<"c","y","b","e","r","p","o","w","e","r">> >>
\* r'(rtx|gtx|radeon rx|arc)\s*[a-z]?\d{3,4}'
re_filter_gpu ==
  RSeq(<<RAlt(<<RLit(<<"r","t","x">>), RLit(<<"g","t","x">>), RLit(<<"r","a","d","e","o","n"," ","r","x">>), RLit(<<"a","r","c">>)>>),
         RStar(RSet(Space)), ROpt(RSet(LowerSet)), RRep(RSet(Digit), 3, 4)>>)
\* r'(system|desktop|tower|pc|computer|gaming pc|laptop)'
re_filter_system_words ==
  RAlt(<<RLit(<<"s","y","s","t","e","m">>), RLit(<<"d","e","s","k","t","o","p">>), RLit(<<"t","o","w","e","r">>), RLit(<<"p","c">>),
         RLit(<<"c","o","m","p","u","t","e","r">>), RLit(<<"g","a","m","i","n","g"," ","p","c">>), RLit(<<"l","a","p","t","o","p">>)>>)

\* recommender.py:676-680
IsSystemSearch(product_mentions) ==
  /\ product_mentions # <<>>
  /\ product_mentions[1].product_type # <<>>
  /\ AnyIn(system_search_terms, lower(product_mentions[1].product_type))

\* recommender.py:689-707: is_component of one mention
IsComponent(product) ==
  LET product_name == lower(product.product)
      no_system_word == ~Matches(re_filter_system_words, product_name)
      standalone_gpu == /\ Matches(re_filter_gpu, product_name)
                        /\ no_system_word
                        /\ Len(product_name) < 20
      other_component == AnyIn(filter_component_terms, product_name) /\ no_system_word
  IN IF AnyIn(system_brands, product_name) THEN FALSE
     ELSE standalone_gpu \/ other_component

\* [p for p in mentions if keep(p)]
RECURSIVE SelectComponents(_, _)
SelectComponents(mentions, want) ==
  IF mentions = <<>> THEN <<>>
  ELSE (IF IsComponent(Head(mentions)) = want THEN <<Head(mentions)>> ELSE <<>>)
       \o SelectComponents(Tail(mentions), want)
Systems(product_mentions) == SelectComponents(product_mentions, FALSE)
Components(product_mentions) == SelectComponents(product_mentions, TRUE)
\* a filter that keeps every mention
AllProducts(mentions) == mentions
\* [p for p in mentions if p.get("validity_score", 0) >= 3]
RECURSIVE ValidProducts(_)
ValidProducts(mentions) ==
  IF mentions = <<>> THEN <<>>
  ELSE (IF Head(mentions).validity_score >= 3 THEN <<Head(mentions)>> ELSE <<>>)
       \o ValidProducts(Tail(mentions))

\* a selection without the systems-first branch of a system search
SelectionOfAll(product_mentions) ==
  IF ValidProducts(product_mentions) # <<>>
  THEN [list |-> ValidProducts(product_mentions), same_list |-> FALSE]
  ELSE [list |-> product_mentions, same_list |-> TRUE]

\* recommender.py:683-740: selected_products before its sort, and whether it is the
\* list object product_mentions itself (then the sort reorders the caller's list)
Selection(product_mentions) ==
  LET systems == Systems(product_mentions)
      pick(new) == [list |-> new, same_list |-> FALSE]
      all == [list |-> product_mentions, same_list |-> TRUE]
  IN IF IsSystemSearch(product_mentions) /\ systems # <<>>
     THEN (IF ValidProducts(systems) # <<>> THEN pick(ValidProducts(systems)) ELSE pick(systems))
     ELSE (IF ValidProducts(product_mentions) # <<>>
           THEN pick(ValidProducts(product_mentions)) ELSE all)

\* a sort that is not stable: mentions of equal score come out in reverse order
Reverse(s) == [i \in DOMAIN s |-> s[Len(s) + 1 - i]]
TiesReversed(product_mentions) == SortByScore(Reverse(Selection(product_mentions).list))
\* selected_products.sort(key=lambda x: x.get("score", 0), reverse=True)
SelectedProducts(product_mentions) == SortByScore(Selection(product_mentions).list)

\* top_product = selected_products[0]
TopProduct(product_mentions) == SelectedProducts(product_mentions)[1]

\* product_mentions as format_recommendation leaves it
MentionsAfterFormat(product_mentions) ==
  IF product_mentions # <<>> /\ Selection(product_mentions).same_list
  THEN SelectedProducts(product_mentions) ELSE product_mentions

\* re.sub(r'[^\w\s\-]', '', product_model), then re.sub(r'\s+', ' ', ...).strip()
RECURSIVE CollapseSpace(_)
CollapseSpace(s) ==
  IF s = <<>> THEN <<>>
  ELSE IF Head(s) \in Space
       THEN <<" ">> \o CollapseSpace(LStrip(s))
       ELSE <<Head(s)>> \o CollapseSpace(Tail(s))
Sanitize(product_model) ==
  Strip(CollapseSpace(FilterChars(product_model, Word \cup Space \cup {"-"})))

\* str.replace(' ', '+')
PlusForSpace(s) == [i \in DOMAIN s |-> IF s[i] = " " THEN "+" ELSE s[i]]
generate_amazon_link(product_model) ==
  [amazon_search |-> PlusForSpace(product_model), tag |-> "allurecomreco-20"]
generate_image_url(product_model) ==
  [placeholder_text |-> PlusForSpace(product_model)]

\* recommender.py:768-780: the attributes handed to generate_ai_description
DerivedAttributes(top_product) ==
  LET words == Split(top_product.product_type)
  IN (IF Len(words) > 1 THEN Tail(words) ELSE <<>>) \o top_product.attributes

\* the loop over the other mentions without its two checks on result["sources"]
RECURSIVE AddEverySource(_, _)
AddEverySource(sources, mentions) ==
  IF mentions = <<>> THEN sources
  ELSE AddEverySource(IF Head(mentions).source # "" THEN Append(sources, Head(mentions).source)
                      ELSE sources,
                      Tail(mentions))

\* recommender.py:801-817
RECURSIVE AddSources(_, _)
AddSources(sources, mentions) ==
  IF mentions = <<>> THEN sources
  ELSE LET source == Head(mentions).source
       IN AddSources(IF source # "" /\ ~InSeq(source, sources) /\ Len(sources) < 3
                     THEN Append(sources, source) ELSE sources,
                     Tail(mentions))
DefaultSources(source) ==
  IF source = "reddit" THEN <<"https://www.reddit.com">>
  ELSE IF source = "youtube" THEN <<"https://www.youtube.com">>
  ELSE <<>>
Sources(top_product, product_mentions, source) ==
  LET own == IF top_product.source # "" THEN <<top_product.source>> ELSE <<>>
      more == IF Len(product_mentions) > 1
              THEN AddSources(own, Slice(product_mentions, 1, 5)) ELSE own
  IN IF more = <<>> THEN DefaultSources(source) ELSE more

\* format_recommendation(product_mentions, source) -> dict or None
format_recommendation(product_mentions, source, api_key, api) ==
  IF product_mentions = <<>> THEN None
  ELSE LET top_product == TopProduct(product_mentions)
           product_model == Sanitize(top_product.product)
       IN IF top_product.product = <<>> \/ Len(top_product.product) < 3 THEN None
          ELSE [product |-> product_model,
                description |-> generate_ai_description(
                                  product_model, top_product.description,
                                  top_product.product_type, DerivedAttributes(top_product),
                                  api_key, api),
                sources |-> Sources(top_product, MentionsAfterFormat(product_mentions), source),
                buy_link |-> generate_amazon_link(product_model),
                image_url |-> generate_image_url(product_model),
                validity_score |-> top_product.validity_score,
                attributes |-> top_product.attributes]


\* ------------------------------------------------------------- the inputs
\* The values the program receives from outside: the request of /search, what
\* scrape_reddit and scrape_youtube return, and what the chat-completions API
\* answers.  They are drawn from the small sets below.

\* most threads a scrape_reddit result holds, most videos a scrape_youtube result
MaxThreads == 2
MaxVideos == 4

Comment(text, upvotes) == [text |-> text, upvotes |-> upvotes]
Thread(title, url, comments) == [title |-> title, url |-> url, comments |-> comments]
Video(title, url, transcript, views, likes) ==
  [title |-> title, url |-> url, transcript |-> transcript, views |-> views, likes |-> likes]

\* the requests: product and attributes of the JSON body of /search
GamingPc == [product |-> <<"g","a","m","i","n","g"," ","p","c">>, attributes |-> <<>>]
Vacuum == [product |-> <<"v","a","c","u","u","m">>, attributes |-> <<<<"c","o","r","d","l","e","s","s">>>>]
Requests == {GamingPc, Vacuum}

\* threads as scrape_reddit returns them: title, url and up to five comments
GpuThread ==
  Thread(<<"B","e","s","t"," ","g","a","m","i","n","g"," ","P","C","?">>, "https://www.reddit.com/r/buildapc/comments/1",
         <<Comment(<<"R","T","X"," ","4","0","9","0"," ","i","s"," ","t","h","e"," ","b","e","s","t">>, 200),
           Comment(<<"I"," ","r","e","c","o","m","m","e","n","d"," ","t","h","e"," ","A","l","i","e","n","w","a","r","e"," ","A","u","r","o","r","a"," ","R","1","6">>, 12)>>)
WinsThread ==
  Thread(<<"G","P","U"," ","w","i","n","s">>, "https://www.reddit.com/r/buildapc/comments/2",
         <<Comment(<<"r","t","x","-","4","0","9","0"," ","w","i","n","s">>, 5)>>)
OmenThread ==
  Thread(<<"P","r","e","b","u","i","l","t","?">>, "https://www.reddit.com/r/buildapc/comments/3",
         <<Comment(<<"g","e","t"," ","t","h","e"," ","H","P"," ","O","m","e","n"," ","4","5","L">>, 30)>>)
ShortThread ==
  Thread(<<"W","h","a","t"," ","d","o"," ","y","o","u"," ","u","s","e">>, "https://www.reddit.com/r/buildapc/comments/4",
         <<Comment(<<"I"," ","u","s","e"," ","a",".","1">>, 7)>>)
\* a thread dict without "url": thread.get("url", "") is ""
NoUrlThread ==
  Thread(<<"O","f","f","i","c","e"," ","P","C","s">>, "",
         <<Comment(<<"w","e"," ","u","s","e"," ","i","t">>, 3), Comment(<<"b","e","s","t"," ","P","c","!"," ","e","v","e","r">>, 40)>>)
DysonThread ==
  Thread(<<"C","o","r","d","l","e","s","s"," ","v","a","c","u","u","m">>, "https://www.reddit.com/r/VacuumCleaners/comments/5",
         <<Comment(<<"D","y","s","o","n"," ","V","1","5"," ","D","e","t","e","c","t"," ","i","s"," ","g","r","e","a","t">>, 50),
           Comment(<<"I"," ","o","w","n"," ","t","h","e"," ","D","y","s","o","n"," ","V","1","5">>, 8)>>)
SonyThread ==
  Thread(<<"O","f","f"," ","t","o","p","i","c">>, "https://www.reddit.com/r/VacuumCleaners/comments/6",
         <<Comment(<<"I"," ","l","o","v","e"," ","m","y"," ","S","o","n","y"," ","W","H","_","1","0","0","0">>, 30)>>)
QuietThread ==
  Thread(<<"Q","u","i","e","t"," ","v","a","c","u","u","m","s">>, "https://www.reddit.com/r/VacuumCleaners/comments/7",
         <<Comment(<<"Q","u","i","e","t"," ","V","a","c"," ","o","r"," ","T","u","r","b","o"," ","M","a","x",","," ","b","o","t","h"," ","g","r","e","a","t">>, 200)>>)
BissellThread ==
  Thread(<<"B","u","d","g","e","t"," ","v","a","c","u","u","m">>, "https://www.reddit.com/r/VacuumCleaners/comments/8",
         <<Comment(<<"B","i","s","s","e","l","l"," ","2","2","5","2"," ","i","s"," ","o","k">>, 1), Comment(<<"d","y","s","o","n"," ","v","8"," ","h","e","r","e">>, 2)>>)

\* three comments that come to one score: the validity scores 8 and 5 both count
\* as 5, 60 and 200 upvotes both as 5, and 0.6 * 5 + 4.5 = 0.5 * 5 + 5
TieThread ==
  Thread(<<"S","h","a","r","k"," ","v","a","c","u","u","m","s">>, "https://www.reddit.com/r/VacuumCleaners/comments/9",
         <<Comment(<<"I"," ","h","a","v","e"," ","t","h","e"," ","S","h","a","r","k"," ","N","V","3","6","0">>, 60),
           Comment(<<"S","h","a","r","k"," ","N","V","5","0","1"," ","r","o","c","k","s">>, 200),
           Comment(<<"S","h","a","r","k"," ","N","V","7","5","2"," ","r","o","c","k","s">>, 45)>>)
\* a name that holds the query term "cordless"
CordlessThread ==
  Thread(<<"C","o","r","d","l","e","s","s"," ","o","n","l","y">>, "https://www.reddit.com/r/VacuumCleaners/comments/10",
         <<Comment(<<"I"," ","u","s","e"," ","t","h","e"," ","S","h","a","r","k"," ","C","o","r","d","l","e","s","s"," ","I","Z","4","6","2">>, 120),
           Comment(<<"M","i","e","l","e"," ","C","3"," ","t","o","o">>, 3)>>)
\* one comment whose name the API writes in another letter case than the comment
RepeatThread ==
  Thread(<<"D","y","s","o","n"," ","a","g","a","i","n">>, "https://www.reddit.com/r/VacuumCleaners/comments/11",
         <<Comment(<<"I"," ","l","i","k","e"," ","t","h","e"," ","d","y","s","o","n"," ","v","1","1">>, 9)>>)

\* videos as scrape_youtube returns them
AuroraVideo ==
  Video(<<"A","l","i","e","n","w","a","r","e"," ","A","u","r","o","r","a"," ","R","1","6"," ","r","e","v","i","e","w">>, "https://www.youtube.com/watch?v=1",
        <<"I"," ","r","e","c","o","m","m","e","n","d"," ","t","h","e"," ","A","l","i","e","n","w","a","r","e"," ","A","u","r","o","r","a"," ","R","1","6">>, 100000, 1000)
GpuVideo ==
  Video(<<"T","o","p"," ","G","P","U","s">>, "https://www.youtube.com/watch?v=2",
        <<"R","T","X"," ","4","0","9","0"," ","i","s"," ","t","h","e"," ","b","e","s","t">>, 5000, 50)
OmenVideo ==
  Video(<<"P","r","e","b","u","i","l","t"," ","p","i","c","k","s">>, "https://www.youtube.com/watch?v=3",
        <<"g","e","t"," ","t","h","e"," ","H","P"," ","O","m","e","n"," ","4","5","L">>, 20000, 250)
AegisVideo ==
  Video(<<"M","S","I"," ","A","e","g","i","s"," ","R","2">>, "https://www.youtube.com/watch?v=4",
        <<"M","S","I"," ","A","e","g","i","s"," ","R","2"," ","i","s"," ","f","i","n","e">>, 0, 0)
CorsairVideo ==
  Video(<<"S","m","a","l","l"," ","P","C","s">>, "https://www.youtube.com/watch?v=5",
        <<"C","o","r","s","a","i","r"," ","O","n","e"," ","i","5","0","0"," ","r","o","c","k","s">>, 800, 10)
DysonVideo ==
  Video(<<"D","y","s","o","n"," ","V","1","5"," ","r","e","v","i","e","w">>, "https://www.youtube.com/watch?v=6",
        <<"I"," ","o","w","n"," ","t","h","e"," ","D","y","s","o","n"," ","V","1","5">>, 100000, 1000)
DetectVideo ==
  Video(<<"C","o","r","d","l","e","s","s"," ","p","i","c","k","s">>, "https://www.youtube.com/watch?v=7",
        <<"D","y","s","o","n"," ","V","1","5"," ","D","e","t","e","c","t"," ","i","s"," ","g","r","e","a","t">>, 5000, 50)
PcVideo ==
  Video(<<"O","f","f","i","c","e"," ","P","C","s">>, "https://www.youtube.com/watch?v=8",
        <<"b","e","s","t"," ","P","c","!"," ","e","v","e","r">>, 300, 4)
RyzenVideo ==
  Video(<<"C","P","U"," ","p","i","c","k","s">>, "https://www.youtube.com/watch?v=9",
        <<"A","M","D"," ","R","y","z","e","n"," ","7"," ","5","8","0","0","X","3","D"," ","i","s"," ","f","a","s","t">>, 1000, 10)
\* a video dict without "url": video.get("url", "") is ""
SharkVideo ==
  Video(<<"S","h","a","r","k">>, "",
        <<"I"," ","b","o","u","g","h","t"," ","t","h","e"," ","S","h","a","r","k"," ","N","V","3","6","0">>, 0, 0)
CordlessVideo ==
  Video(<<"B","e","s","t"," ","c","o","r","d","l","e","s","s"," ","v","a","c","u","u","m">>, "https://www.youtube.com/watch?v=10",
        <<"I"," ","u","s","e"," ","t","h","e"," ","S","h","a","r","k"," ","C","o","r","d","l","e","s","s"," ","I","Z","4","6","2">>, 40000, 450)

\* what a scrape can have found for a request, longest first
ThreadLists(product) ==
  IF product = GamingPc.product
  THEN {<<GpuThread, WinsThread, OmenThread>>, <<ShortThread, NoUrlThread>>, <<NoUrlThread>>}
  ELSE {<<DysonThread, SonyThread>>, <<SonyThread>>, <<QuietThread, BissellThread>>,
        <<TieThread>>, <<CordlessThread>>, <<RepeatThread>>}
VideoLists(product) ==
  IF product = GamingPc.product
  THEN {<<AuroraVideo, GpuVideo, OmenVideo, AegisVideo, CorsairVideo>>, <<PcVideo, RyzenVideo>>}
  ELSE {<<DysonVideo, DetectVideo, SharkVideo, CordlessVideo>>}

Prefixes(lists, most) ==
  {SubSeq(l, 1, Min(k, Len(l))) : l \in lists, k \in 0..most}
\* the values scrape_reddit(product, attributes)["threads"] can have
ThreadsFound(product) == Prefixes(ThreadLists(product), MaxThreads)
\* the values scrape_youtube(product, attributes)["videos"] can have
VideosFound(product) == Prefixes(VideoLists(product), MaxVideos)

\* What the API does for one text: its behaviour at the extraction call of
\* extract_product_models and at the scoring call of analyze_sentiment.
Api(extract, sentiment) == [extract |-> extract, sentiment |-> sentiment]
ApiCalls(text) ==
  IF text = <<"R","T","X"," ","4","0","9","0"," ","i","s"," ","t","h","e"," ","b","e","s","t">>
  THEN {Api(JsonList(<<<<"R","T","X"," ","4","0","9","0">>>>), ApiAnswers(<<"0",".","9">>)),
        Api(ApiRaises, ApiRaises)}
  ELSE IF text = <<"I"," ","r","e","c","o","m","m","e","n","d"," ","t","h","e"," ","A","l","i","e","n","w","a","r","e"," ","A","u","r","o","r","a"," ","R","1","6">>
  THEN {Api(JsonObject(<<<<"A","l","i","e","n","w","a","r","e"," ","A","u","r","o","r","a"," ","R","1","6">>>>), ApiAnswers(<<"S","c","o","r","e",":"," ","0",".","7","5">>))}
  ELSE IF text = <<"r","t","x","-","4","0","9","0"," ","w","i","n","s">>
  THEN {Api(ProseWithList(<<<<"r","t","x","-","4","0","9","0">>>>), ApiAnswers(<<"1">>))}
  ELSE IF text = <<"g","e","t"," ","t","h","e"," ","H","P"," ","O","m","e","n"," ","4","5","L">>
  THEN {Api(ProseWithBrackets(<<<<"H","P"," ","O","m","e","n"," ","4","5","L">>>>), ApiAnswers(<<"p","o","s","i","t","i","v","e">>)),
        Api(JsonList(<<<<"H","P"," ","O","m","e","n"," ","4","5","L">>, NotAStr>>), ApiAnswers(<<"0",".","5">>))}
  ELSE IF text = <<"I"," ","u","s","e"," ","a",".","1">>
  THEN {Api(JsonList(<<<<"a",".","1">>>>), ApiAnswers(<<"0",".","6">>))}
  ELSE IF text = <<"w","e"," ","u","s","e"," ","i","t">>
  THEN {Api(JsonList(<<<<"a","b","c">>>>), ApiAnswers(<<"0",".","5">>))}
  ELSE IF text = <<"b","e","s","t"," ","P","c","!"," ","e","v","e","r">>
  THEN {Api(ProseOnly, ApiRaises)}
  ELSE IF text = <<"I"," ","o","w","n"," ","t","h","e"," ","D","y","s","o","n"," ","V","1","5">>
  THEN {Api(JsonList(<<<<"D","y","s","o","n"," ","V","1","5">>, <<"d","y","s","o","n","-","v","1","5">>>>), ApiAnswers(<<"0",".","8">>)),
        Api(JsonList(<<<<"D","y","s","o","n"," ","V","1","5">>>>), ApiAnswers(<<"0",".","2","5">>))}
  ELSE IF text = <<"D","y","s","o","n"," ","V","1","5"," ","D","e","t","e","c","t"," ","i","s"," ","g","r","e","a","t">>
  THEN {Api(JsonList(<<<<"D","Y","S","O","N"," ","V","1","5"," ">>, <<"D","y","s","o","n"," ","V","1","5"," ","D","e","t","e","c","t">>>>), ApiAnswers(<<"1",".","0">>))}
  ELSE IF text = <<"M","S","I"," ","A","e","g","i","s"," ","R","2"," ","i","s"," ","f","i","n","e">>
  THEN {Api(JsonList(<<<<"M","S","I"," ","A","e","g","i","s"," ","R","2">>, <<"o","k">>>>), ApiAnswers(<<"0",".","4">>))}
  ELSE IF text = <<"I"," ","l","o","v","e"," ","m","y"," ","S","o","n","y"," ","W","H","_","1","0","0","0">>
  THEN {Api(JsonList(<<<<"S","o","n","y"," ","W","H","_","1","0","0","0">>>>), ApiAnswers(<<"0",".","9">>))}
  ELSE IF text = <<"Q","u","i","e","t"," ","V","a","c"," ","o","r"," ","T","u","r","b","o"," ","M","a","x",","," ","b","o","t","h"," ","g","r","e","a","t">>
  THEN {Api(JsonList(<<<<"Q","u","i","e","t"," ","V","a","c">>, <<>>, <<"T","u","r","b","o"," ","M","a","x">>>>), ApiAnswers(<<"1",".","0">>))}
  ELSE IF text = <<"B","i","s","s","e","l","l"," ","2","2","5","2"," ","i","s"," ","o","k">>
  THEN {Api(JsonList(<<<<"B","i","s","s","e","l","l"," ","2","2","5","2">>>>), ApiAnswers(<<"0",".","2">>))}
  ELSE IF text = <<"d","y","s","o","n"," ","v","8"," ","h","e","r","e">>
  THEN {Api(JsonList(<<>>), ApiAnswers(<<"0",".","5">>))}
  ELSE IF text = <<"I"," ","h","a","v","e"," ","t","h","e"," ","S","h","a","r","k"," ","N","V","3","6","0">>
  THEN {Api(JsonList(<<<<"S","h","a","r","k"," ","N","V","3","6","0">>>>), ApiAnswers(<<"0",".","5">>))}
  ELSE IF text = <<"S","h","a","r","k"," ","N","V","5","0","1"," ","r","o","c","k","s">>
  THEN {Api(JsonList(<<<<"S","h","a","r","k"," ","N","V","5","0","1">>>>), ApiAnswers(<<"0",".","5">>)),
        Api(JsonList(<<<<"S","h","a","r","k"," ","N","V","5","0","1">>>>), ApiAnswers(<<"7"," ","o","u","t"," ","o","f"," ","1","0">>))}
  ELSE IF text = <<"S","h","a","r","k"," ","N","V","7","5","2"," ","r","o","c","k","s">>
  THEN {Api(JsonList(<<<<"S","h","a","r","k"," ","N","V","7","5","2">>>>), ApiAnswers(<<"0",".","6">>))}
  ELSE IF text = <<"I"," ","u","s","e"," ","t","h","e"," ","S","h","a","r","k"," ","C","o","r","d","l","e","s","s"," ","I","Z","4","6","2">>
  THEN {Api(JsonList(<<<<"S","h","a","r","k"," ","C","o","r","d","l","e","s","s"," ","I","Z","4","6","2">>>>), ApiAnswers(<<"0",".","7">>))}
  ELSE IF text = <<"M","i","e","l","e"," ","C","3"," ","t","o","o">>
  THEN {Api(JsonList(<<<<"M","i","e","l","e"," ","C","3">>>>), ApiAnswers(<<"0",".","3">>))}
  ELSE IF text = <<"I"," ","l","i","k","e"," ","t","h","e"," ","d","y","s","o","n"," ","v","1","1">>
  THEN {Api(JsonList(<<<<"D","y","s","o","n"," ","V","1","1">>>>), ApiAnswers(<<"0",".","5">>))}
  ELSE IF text = <<"A","M","D"," ","R","y","z","e","n"," ","7"," ","5","8","0","0","X","3","D"," ","i","s"," ","f","a","s","t">>
  THEN {Api(JsonList(<<<<"A","M","D"," ","R","y","z","e","n"," ","7"," ","5","8","0","0","X","3","D">>, <<"A","M","D"," ","R","y","z","e","n"," ","9"," ","7","9","5","0","X","3","D">>>>), ApiAnswers(<<"0",".","7">>))}
  ELSE {Api(ApiRaises, ApiRaises)}
\* without OPENAI_API_KEY neither function calls the API
NoApi == Api(ApiRaises, ApiRaises)
\* what the API does at the call of generate_ai_description
DescriptionCalls == {ApiRaises, ApiAnswers(<<" ","A"," ","s","o","l","i","d"," ","p","i","c","k","."," ">>)}


\* ------------------------------------------- process_and_rank_products
\* One call of process_and_rank_products(product, attributes), as /search makes it.
\*   product, attributes   the arguments
\*   api_key               whether OPENAI_API_KEY is set
\*   pc                    where the call stands
\*   reddit_future, youtube_future
\*                         the two jobs submitted to the executor: "unsubmitted",
\*                         "running", "done" (returned) or "raised"
\*   reddit_data, youtube_data
\*                         the threads and the videos the call works on
\*   cursor                the loops of the running process_*_data: the thread or
\*                         video (unit), the pass over its comments, the comment
\*   reddit_mentions, youtube_mentions
\*                         the list product_mentions of each process_*_data
\*   reddit_products, youtube_products
\*                         what each process_*_data returned
\*   results               the dict the call returns (None where not yet set)
\*   raised_in             the function an exception escaped from, "" for none
\*   api_calls             the invocations of the chat-completions API the last
\*                         step made, in order
VARIABLES product, attributes, api_key, pc, reddit_future, youtube_future,
          reddit_data, youtube_data, cursor, reddit_mentions, youtube_mentions,
          reddit_products, youtube_products, results, raised_in, api_calls

vars == <<product, attributes, api_key, pc, reddit_future, youtube_future,
          reddit_data, youtube_data, cursor, reddit_mentions, youtube_mentions,
          reddit_products, youtube_products, results, raised_in, api_calls>>

NoResults == [reddit |-> None, youtube |-> None]
FirstComment(unit, pass) == [unit |-> unit, pass |-> pass, comment |-> 1]

Init ==
  /\ \E request \in Requests :
       /\ product = request.product
       /\ attributes = request.attributes
  /\ api_key \in BOOLEAN
  /\ pc = "submit"
  /\ reddit_future = "unsubmitted"
  /\ youtube_future = "unsubmitted"
  /\ reddit_data = <<>>
  /\ youtube_data = <<>>
  /\ cursor = FirstComment(1, "nlp")
  /\ reddit_mentions = <<>>
  /\ youtube_mentions = <<>>
  /\ reddit_products = <<>>
  /\ youtube_products = <<>>
  /\ results = NoResults
  /\ raised_in = ""
  /\ api_calls = <<>>

\* ---- gathering: recommender.py:41-57
\* executor.submit(scrape_reddit, ...); executor.submit(scrape_youtube, ...)
Submit ==
  /\ pc = "submit"
  /\ reddit_future' = "running"
  /\ youtube_future' = "running"
  /\ pc' = "reddit_result"
  /\ api_calls' = <<>>
  /\ UNCHANGED <<product, attributes, api_key, reddit_data, youtube_data, cursor,
                 reddit_mentions, youtube_mentions, reddit_products, youtube_products,
                 results, raised_in>>

\* a worker thread: scrape_reddit returns, or raises
ScrapeRedditEnds ==
  /\ reddit_future = "running"
  /\ reddit_future' \in {"done", "raised"}
  /\ api_calls' = <<>>
  /\ UNCHANGED <<product, attributes, api_key, pc, youtube_future, reddit_data,
                 youtube_data, cursor, reddit_mentions, youtube_mentions,
                 reddit_products, youtube_products, results, raised_in>>
\* a worker thread: scrape_youtube returns, or raises
ScrapeYoutubeEnds ==
  /\ youtube_future = "running"
  /\ youtube_future' \in {"done", "raised"}
  /\ api_calls' = <<>>
  /\ UNCHANGED <<product, attributes, api_key, pc, reddit_future, reddit_data,
                 youtube_data, cursor, reddit_mentions, youtube_mentions,
                 reddit_products, youtube_products, results, raised_in>>

\* reddit_data = reddit_future.result(timeout=SCRAPING_TIMEOUT), and its except:
\* the value scrape_reddit returned; {"threads": []} when it raised or when the
\* timeout passes with the job still running
ResultReddit ==
  /\ pc = "reddit_result"
  /\ IF reddit_future = "done"
     THEN reddit_data' \in ThreadsFound(product)
     ELSE reddit_data' = <<>>
  /\ pc' = "youtube_result"
  /\ api_calls' = <<>>
  /\ UNCHANGED <<product, attributes, api_key, reddit_future, youtube_future,
                 youtube_data, cursor, reddit_mentions, youtube_mentions,
                 reddit_products, youtube_products, results, raised_in>>
\* youtube_data = youtube_future.result(timeout=SCRAPING_TIMEOUT), and its except
ResultYoutube ==
  /\ pc = "youtube_result"
  /\ IF youtube_future = "done"
     THEN youtube_data' \in VideosFound(product)
     ELSE youtube_data' = <<>>
  /\ pc' = "shutdown"
  /\ api_calls' = <<>>
  /\ UNCHANGED <<product, attributes, api_key, reddit_future, youtube_future,
                 reddit_data, cursor, reddit_mentions, youtube_mentions,
                 reddit_products, youtube_products, results, raised_in>>

\* the end of the with block: ThreadPoolExecutor.__exit__ is shutdown(wait=True),
\* which joins the worker threads, so it returns when neither job is running
JobsRunning == reddit_future = "running" \/ youtube_future = "running"

\* ---- process_reddit_data: recommender.py:262-344
\* a builder that skips no candidate
NeverSkipped(validity_score) == FALSE
\* if validity_score < 0: continue      (lines 296, 324 and 416)
Skipped(validity_score) == validity_score < 0

\* the dict appended at lines 300-310 and 334-344
RedditMention(model, text, upvotes, sentiment, thread_url, validity, product_type, attrs) ==
  [product |-> model, upvotes |-> upvotes, sentiment |-> sentiment, source |-> thread_url,
   description |-> generate_description(text, model, attrs),
   validity_score |-> validity.confidence_score, validity_reason |-> validity.reason,
   product_type |-> product_type, attributes |-> attrs]

\* for model in models: ... product_mentions.append({...})        (lines 291-310)
RECURSIVE RedditModels(_, _, _, _, _, _, _)
RedditModels(models, text, upvotes, sentiment, thread_url, product_type, attrs) ==
  IF models = <<>> THEN <<>>
  ELSE LET model == Head(models)
           validity == is_valid_product(model, text, product_type)
       IN (IF Skipped(validity.confidence_score) THEN <<>>
           ELSE <<RedditMention(model, text, upvotes, sentiment, thread_url, validity,
                                product_type, attrs)>>)
          \o RedditModels(Tail(models), text, upvotes, sentiment, thread_url,
                          product_type, attrs)

\* is_valid_product(model, ...) starts with model.lower(): an item of models that
\* is no string raises AttributeError there
RaisesOn(models) == \E i \in DOMAIN models : ~IsStr(models[i])

\* any(mention["product"].lower() == model_name.lower() for mention in product_mentions)
\* a comparison of the names as they are written
MentionedVerbatim(product_mentions, model_name) ==
  \E i \in DOMAIN product_mentions : product_mentions[i].product = model_name
Mentioned(product_mentions, model_name) ==
  \E i \in DOMAIN product_mentions : lower(product_mentions[i].product) = lower(model_name)

\* lines 313-344, for one comment: product_mentions after it
RedditFallback(product_mentions, text, upvotes, api, thread_url, product_type, attrs, key) ==
  LET model_name == extract_model_from_text(text, product_type)
      validity == is_valid_product(model_name, text, product_type)
      sentiment == analyze_sentiment(text, key, api.sentiment)
  IN IF model_name = <<>> THEN product_mentions
     ELSE IF Skipped(validity.confidence_score) THEN product_mentions
     ELSE IF Mentioned(product_mentions, model_name) THEN product_mentions
     ELSE Append(product_mentions,
                 RedditMention(model_name, text, upvotes, sentiment, thread_url, validity,
                               product_type, attrs))

\* The loops of lines 267-344 from a position on: that position when there is a
\* comment at it, else the next one that has a comment; unit > Len(threads) when
\* the loops are over.  The second pass over a thread's comments is made only
\* if len(product_mentions) < 2 after the first.
\* the loops with a second pass over every thread, whatever len(product_mentions) is
RECURSIVE SeekEveryPass(_, _, _)
SeekEveryPass(threads, product_mentions, at) ==
  IF at.unit > Len(threads) THEN at
  ELSE IF at.comment <= Len(threads[at.unit].comments) THEN at
  ELSE IF at.pass = "nlp"
       THEN SeekEveryPass(threads, product_mentions, FirstComment(at.unit, "fallback"))
       ELSE SeekEveryPass(threads, product_mentions, FirstComment(at.unit + 1, "nlp"))
RECURSIVE RedditSeek(_, _, _)
RedditSeek(threads, product_mentions, at) ==
  IF at.unit > Len(threads) THEN at
  ELSE IF at.comment <= Len(threads[at.unit].comments) THEN at
  ELSE IF at.pass = "nlp" /\ Len(product_mentions) < 2
       THEN RedditSeek(threads, product_mentions, FirstComment(at.unit, "fallback"))
       ELSE RedditSeek(threads, product_mentions, FirstComment(at.unit + 1, "nlp"))
NextComment(at) == [at EXCEPT !.comment = at.comment + 1]

\* the API invocations of one comment of the first pass, or of one video:
\* extract_product_models(text), then analyze_sentiment(text) if models (lines
\* 282-288 and 405-409)
NlpInvocations(text, models, key, api) ==
  ExtractInvocations(text, key, api.extract)
    \o (IF models # <<>> THEN SentimentInvocations(text, key, api.sentiment) ELSE <<>>)
\* the API invocations of one comment of the second pass: analyze_sentiment(text),
\* for a model name that is not skipped (lines 318-330)
FallbackInvocations(model_name, text, product_type, key, api) ==
  IF model_name = <<>> THEN <<>>
  ELSE IF Skipped(is_valid_product(model_name, text, product_type).confidence_score)
       THEN <<>>
       ELSE SentimentInvocations(text, key, api.sentiment)
\* the API invocations of format_recommendation: generate_ai_description, when it
\* gets as far as line 783
FormatInvocations(recommendation, key, api) ==
  IF recommendation = None THEN <<>> ELSE DescriptionInvocations(key, api)

\* the end of the with block (executor.shutdown(wait=True)), then the call of
\* process_reddit_data up to its first comment
Shutdown ==
  /\ pc = "shutdown"
  /\ ~JobsRunning
  /\ pc' = "process_reddit"
  /\ reddit_mentions' = <<>>
  /\ cursor' = RedditSeek(reddit_data, <<>>, FirstComment(1, "nlp"))
  /\ api_calls' = <<>>
  /\ UNCHANGED <<product, attributes, api_key, reddit_future, youtube_future,
                 reddit_data, youtube_data, youtube_mentions,
                 reddit_products, youtube_products, results, raised_in>>

\* a call without its except clause: the exception leaves it
Escapes(function) ==
  /\ pc' = "raised"
  /\ results' = results
  /\ raised_in' = function
\* except Exception as e: return {"reddit": None, "youtube": None}   (lines 78-81)
Raise(function) ==
  /\ pc' = "returned"
  /\ results' = NoResults
  /\ raised_in' = function

\* one comment of the first pass: lines 277-310
NlpComment ==
  /\ pc = "process_reddit"
  /\ cursor.unit <= Len(reddit_data)
  /\ cursor.pass = "nlp"
  /\ LET thread == reddit_data[cursor.unit]
         comment == thread.comments[cursor.comment]
     IN \E api \in (IF api_key THEN ApiCalls(comment.text) ELSE {NoApi}) :
        \E models \in {extract_product_models(comment.text, api_key, api.extract)} :
          LET sentiment == analyze_sentiment(comment.text, api_key, api.sentiment)
              product_mentions ==
                reddit_mentions \o RedditModels(models, comment.text, comment.upvotes,
                                                sentiment, thread.url, product, attributes)
          IN /\ api_calls' = NlpInvocations(comment.text, models, api_key, api)
             /\ IF RaisesOn(models)
                THEN /\ Raise("process_reddit_data")
                     /\ UNCHANGED <<reddit_mentions, cursor>>
                ELSE /\ reddit_mentions' = product_mentions
                     /\ cursor' = RedditSeek(reddit_data, product_mentions, NextComment(cursor))
                     /\ UNCHANGED <<pc, results, raised_in>>
  /\ UNCHANGED <<product, attributes, api_key, reddit_future, youtube_future,
                 reddit_data, youtube_data, youtube_mentions,
                 reddit_products, youtube_products>>

\* one comment of the second pass: lines 314-344
FallbackComment ==
  /\ pc = "process_reddit"
  /\ cursor.unit <= Len(reddit_data)
  /\ cursor.pass = "fallback"
  /\ LET thread == reddit_data[cursor.unit]
         comment == thread.comments[cursor.comment]
     IN \E api \in (IF api_key THEN ApiCalls(comment.text) ELSE {NoApi}) :
          LET product_mentions ==
                RedditFallback(reddit_mentions, comment.text, comment.upvotes, api,
                               thread.url, product, attributes, api_key)
          IN /\ reddit_mentions' = product_mentions
             /\ cursor' = RedditSeek(reddit_data, product_mentions, NextComment(cursor))
             /\ \E model_name \in {extract_model_from_text(comment.text, product)} :
                  api_calls' = FallbackInvocations(model_name, comment.text, product,
                                                   api_key, api)
  /\ UNCHANGED <<product, attributes, api_key, pc, reddit_future, youtube_future,
                 reddit_data, youtube_data, youtube_mentions,
                 reddit_products, youtube_products, results, raised_in>>

\* lines 346-384: score, sort, deduplicate and return; then the call of
\* process_youtube_data
RankReddit ==
  /\ pc = "process_reddit"
  /\ cursor.unit > Len(reddit_data)
  /\ reddit_mentions' = SortReddit(RedditScored(reddit_mentions, product, attributes))
  /\ reddit_products' = RedditRanked(reddit_mentions, product, attributes)
  /\ pc' = "process_youtube"
  /\ youtube_mentions' = <<>>
  /\ cursor' = FirstComment(1, "nlp")
  /\ api_calls' = <<>>
  /\ UNCHANGED <<product, attributes, api_key, reddit_future, youtube_future,
                 reddit_data, youtube_data, youtube_products, results, raised_in>>

\* ---- process_youtube_data: recommender.py:398-467
\* the dict appended at lines 421-433
YoutubeMention(model, video, sentiment, validity, product_type, attrs) ==
  [product |-> model, views |-> video.views, likes |-> video.likes,
   sentiment |-> sentiment, source |-> video.url,
   description |-> generate_description(video.transcript, model, attrs),
   title |-> video.title,
   validity_score |-> validity.confidence_score, validity_reason |-> validity.reason,
   product_type |-> product_type, attributes |-> attrs]

\* for model in models: ... product_mentions.append({...})        (lines 411-433)
RECURSIVE YoutubeModels(_, _, _, _, _)
YoutubeModels(models, video, sentiment, product_type, attrs) ==
  IF models = <<>> THEN <<>>
  ELSE LET model == Head(models)
           validity == is_valid_product(model, video.transcript, product_type)
       IN (IF Skipped(validity.confidence_score) THEN <<>>
           ELSE <<YoutubeMention(model, video, sentiment, validity, product_type, attrs)>>)
          \o YoutubeModels(Tail(models), video, sentiment, product_type, attrs)

\* one video: lines 401-433
Transcript ==
  /\ pc = "process_youtube"
  /\ cursor.unit <= Len(youtube_data)
  /\ LET video == youtube_data[cursor.unit]
     IN \E api \in (IF api_key THEN ApiCalls(video.transcript) ELSE {NoApi}) :
        \E models \in {extract_product_models(video.transcript, api_key, api.extract)} :
          LET sentiment == analyze_sentiment(video.transcript, api_key, api.sentiment)
          IN /\ api_calls' = NlpInvocations(video.transcript, models, api_key, api)
             /\ IF RaisesOn(models)
                THEN /\ Raise("process_youtube_data")
                     /\ UNCHANGED <<youtube_mentions, cursor>>
                ELSE /\ youtube_mentions' =
                          youtube_mentions \o YoutubeModels(models, video, sentiment,
                                                            product, attributes)
                     /\ cursor' = FirstComment(cursor.unit + 1, "nlp")
                     /\ UNCHANGED <<pc, results, raised_in>>
  /\ UNCHANGED <<product, attributes, api_key, reddit_future, youtube_future,
                 reddit_data, youtube_data, reddit_mentions,
                 reddit_products, youtube_products>>

\* lines 435-467: score, sort, deduplicate and return
RankYoutube ==
  /\ pc = "process_youtube"
  /\ cursor.unit > Len(youtube_data)
  /\ youtube_mentions' = SortByScore(YoutubeScored(youtube_mentions, product, attributes))
  /\ youtube_products' = YoutubeRanked(youtube_mentions, product, attributes)
  /\ pc' = "format_reddit"
  /\ api_calls' = <<>>
  /\ UNCHANGED <<product, attributes, api_key, reddit_future, youtube_future,
                 reddit_data, youtube_data, cursor, reddit_mentions,
                 reddit_products, results, raised_in>>

\* ---- the results: recommender.py:66-76
\* "reddit": format_recommendation(reddit_products, "reddit") if reddit_products else None
\* (format_recommendation sorts the list it is handed when it selects all of it)
FormatReddit ==
  /\ pc = "format_reddit"
  /\ \E api \in (IF api_key THEN DescriptionCalls ELSE {ApiRaises}) :
     \E recommendation \in {format_recommendation(reddit_products, "reddit", api_key, api)} :
       /\ results' = [results EXCEPT !.reddit = recommendation]
       /\ api_calls' = FormatInvocations(recommendation, api_key, api)
  /\ reddit_products' = MentionsAfterFormat(reddit_products)
  /\ pc' = "format_youtube"
  /\ UNCHANGED <<product, attributes, api_key, reddit_future, youtube_future,
                 reddit_data, youtube_data, cursor, reddit_mentions, youtube_mentions,
                 youtube_products, raised_in>>
\* "youtube": format_recommendation(youtube_products, "youtube") if youtube_products
\* else None, and the return of results
FormatYoutube ==
  /\ pc = "format_youtube"
  /\ \E api \in (IF api_key THEN DescriptionCalls ELSE {ApiRaises}) :
     \E recommendation \in {format_recommendation(youtube_products, "youtube", api_key, api)} :
       /\ results' = [results EXCEPT !.youtube = recommendation]
       /\ api_calls' = FormatInvocations(recommendation, api_key, api)
  /\ youtube_products' = MentionsAfterFormat(youtube_products)
  /\ pc' = "returned"
  /\ UNCHANGED <<product, attributes, api_key, reddit_future, youtube_future,
                 reddit_data, youtube_data, cursor, reddit_mentions, youtube_mentions,
                 reddit_products, raised_in>>

Next ==
  \/ Submit
  \/ ScrapeRedditEnds
  \/ ScrapeYoutubeEnds
  \/ ResultReddit
  \/ ResultYoutube
  \/ Shutdown
  \/ NlpComment
  \/ FallbackComment
  \/ RankReddit
  \/ Transcript
  \/ RankYoutube
  \/ FormatReddit
  \/ FormatYoutube

Spec == Init /\ [][Next]_vars

\* the steps of the call itself, the two scrape jobs left out
Call ==
  \/ Submit
  \/ ResultReddit
  \/ ResultYoutube
  \/ Shutdown
  \/ NlpComment
  \/ FallbackComment
  \/ RankReddit
  \/ Transcript
  \/ RankYoutube
  \/ FormatReddit
  \/ FormatYoutube


\* ------------------------------ format_recommendation on a list of any order
\* format_recommendation(product_mentions, source) is a function of the list it is
\* handed. This specification hands it lists in every order: the two calls of
\* recommender.py:66-76 on lists that need not come from process_reddit_data and
\* process_youtube_data.
MaxFormatLen == 2

\* scored mentions as process_reddit_data builds them (lines 299-309, 347-367)
FormatPool(product_type, attrs) ==
  RedditScored(
    RedditModels(<<<<"a",".","1">>>>, <<"I"," ","u","s","e"," ","a",".","1">>, 3, Frac(3, 5),
                 "https://www.reddit.com/r/all/comments/1", product_type, attrs)
    \o RedditModels(<<<<"T","u","r","b","o"," ","M","a","x">>>>, <<"T","u","r","b","o"," ","M","a","x"," ","i","s"," ","l","o","u","d">>, 40, Frac(4, 5),
                    "https://www.reddit.com/r/all/comments/2", product_type, attrs)
    \o RedditModels(<<<<"D","y","s","o","n"," ","V","1","5">>>>, <<"I"," ","o","w","n"," ","t","h","e"," ","D","y","s","o","n"," ","V","1","5">>, 12, Frac(4, 5),
                    "https://www.reddit.com/r/all/comments/3", product_type, attrs),
    product_type, attrs)
\* scored mentions as process_youtube_data builds them (lines 419-431, 436-455)
FormatVideoPool(product_type, attrs) ==
  YoutubeScored(
    YoutubeModels(<<<<"a",".","1">>>>, Video(<<"P","i","c","k","s">>, "https://www.youtube.com/watch?v=21",
                                     <<"I"," ","u","s","e"," ","a",".","1">>, 500, 20), Frac(3, 5), product_type, attrs)
    \o YoutubeModels(<<<<"T","u","r","b","o"," ","M","a","x">>>>, Video(<<"M","o","r","e"," ","p","i","c","k","s">>, "https://www.youtube.com/watch?v=22",
                                        <<"T","u","r","b","o"," ","M","a","x"," ","i","s"," ","l","o","u","d">>, 30000, 200), Frac(4, 5),
                     product_type, attrs)
    \o YoutubeModels(<<<<"D","y","s","o","n"," ","V","1","5">>>>, Video(<<"D","y","s","o","n">>, "https://www.youtube.com/watch?v=23",
                                              <<"I"," ","o","w","n"," ","t","h","e"," ","D","y","s","o","n"," ","V","1","5">>, 1000, 10), Frac(4, 5),
                     product_type, attrs),
    product_type, attrs)
\* the lists of n different mentions of the pool, in every order
Arrangements(pool, n) ==
  {[i \in 1..n |-> pool[f[i]]] :
     f \in {g \in [1..n -> DOMAIN pool] : \A i, j \in 1..n : g[i] = g[j] => i = j}}
FormatLists(pool) == UNION {Arrangements(pool, n) : n \in 0..Min(MaxFormatLen, Len(pool))}

\* the state at line 66 with any two lists
InitFormat ==
  /\ \E request \in Requests :
       /\ product = request.product
       /\ attributes = request.attributes
  /\ api_key \in BOOLEAN
  /\ pc = "format_reddit"
  /\ reddit_future = "done"
  /\ youtube_future = "done"
  /\ reddit_data = <<>>
  /\ youtube_data = <<>>
  /\ cursor = FirstComment(1, "nlp")
  /\ reddit_mentions = <<>>
  /\ youtube_mentions = <<>>
  /\ reddit_products \in FormatLists(FormatPool(product, attributes))
  /\ youtube_products \in FormatLists(FormatVideoPool(product, attributes))
  /\ results = NoResults
  /\ raised_in = ""
  /\ api_calls = <<>>
NextFormat ==
  \/ FormatReddit
  \/ FormatYoutube
SpecFormat == InitFormat /\ [][NextFormat]_vars


\* ------------------------------------------------------------ properties

\* where the call stands with respect to each function
RedditReturned ==
  \/ pc \in {"process_youtube", "format_reddit", "format_youtube"}
  \/ pc = "returned" /\ raised_in # "process_reddit_data"
YoutubeReturned ==
  \/ pc \in {"format_reddit", "format_youtube"}
  \/ pc = "returned" /\ raised_in = ""
Returned == pc = "returned" /\ raised_in = ""

\* a candidate of negative validity score is among those the first pass, or the
\* second pass, draws from a text
Negative(model, text) ==
  IsStr(model) /\ is_valid_product(model, text, product).confidence_score < 0
NlpDrops(text) ==
  \E api \in (IF api_key THEN ApiCalls(text) ELSE {NoApi}) :
    LET models == extract_product_models(text, api_key, api.extract)
    IN ~RaisesOn(models) /\ \E i \in DOMAIN models : Negative(models[i], text)
FallbackDrops(text) ==
  LET model_name == extract_model_from_text(text, product)
  IN model_name # <<>> /\ Negative(model_name, text)

\* C1: every mention process_reddit_data and process_youtube_data build or return
\* has validity_score >= 0, in the first pass and in the regex pass alike.
NonNegative(mentions) == \A i \in DOMAIN mentions : mentions[i].validity_score >= 0
C1_ValidityFloor ==
  /\ NonNegative(reddit_mentions)
  /\ NonNegative(youtube_mentions)
  /\ NonNegative(reddit_products)
  /\ NonNegative(youtube_products)
\* both functions have returned, after a thread whose comment gave a negative
\* candidate in the first pass and in the second (the second pass ran: it built the
\* mention "best Pc"), and a video whose transcript gave one
C1_Dropped ==
  /\ Returned
  /\ \E t \in DOMAIN reddit_data : \E c \in DOMAIN reddit_data[t].comments :
       /\ NlpDrops(reddit_data[t].comments[c].text)
       /\ FallbackDrops(reddit_data[t].comments[c].text)
  /\ \E i \in DOMAIN reddit_mentions : reddit_mentions[i].product = <<"b","e","s","t"," ","P","c">>
  /\ \E v \in DOMAIN youtube_data : NlpDrops(youtube_data[v].transcript)
  /\ reddit_products # <<>>
  /\ youtube_products # <<>>

\* the mentions of one deduplication key, and whether two of them differ in score
Group(mentions, Key(_), key) == {i \in DOMAIN mentions : Key(mentions[i]) = key}
OneSurvivorWithMax(products, mentions, Key(_)) ==
  \A i \in DOMAIN mentions :
    LET key == Key(mentions[i])
        group == Group(mentions, Key, key)
        survivors == Group(products, Key, key)
    IN /\ Cardinality(survivors) = 1
       /\ \A s \in survivors :
            /\ \A j \in group : FLeq(mentions[j].score, products[s].score)
            /\ \E j \in group : mentions[j].score = products[s].score
HasUnequalGroup(mentions, Key(_)) ==
  \E i, j \in DOMAIN mentions :
    Key(mentions[i]) = Key(mentions[j]) /\ mentions[i].score # mentions[j].score

\* C2: of the scored mentions that share a deduplication key, the returned list
\* holds exactly one, and its score is the highest score among them.
C2_SurvivorHasMaxScore ==
  /\ RedditReturned =>
       OneSurvivorWithMax(reddit_products, reddit_mentions, RedditProductKey)
  /\ YoutubeReturned =>
       OneSurvivorWithMax(youtube_products, youtube_mentions, YoutubeProductKey)
\* both streams returned with mentions of one key and of different scores
C2_Collision ==
  /\ Returned
  /\ HasUnequalGroup(reddit_mentions, RedditProductKey)
  /\ HasUnequalGroup(youtube_mentions, YoutubeProductKey)

\* the name with every non-alphanumeric character stripped, lowercased
Normalized(name) == FilterChars(lower(name), Alnum)
NoTwoAlike(products) ==
  \A i, j \in DOMAIN products :
    Normalized(products[i].product) = Normalized(products[j].product) => i = j

\* C3: neither returned list holds two mentions whose names are equal after
\* stripping all non-alphanumeric characters and lowercasing.
C3_NoNormalizedDuplicates ==
  NoTwoAlike(reddit_products) /\ NoTwoAlike(youtube_products)

\* C4: each returned list is in non-increasing order of score.
NonIncreasing(products) ==
  \A i, j \in DOMAIN products : i < j => FLeq(products[j].score, products[i].score)
C4_SortedByScore ==
  NonIncreasing(reddit_products) /\ NonIncreasing(youtube_products)
\* both functions returned lists of different scores, shorter than the lists they
\* sorted: deduplication removed a mention from each
StrictlyFalls(products) ==
  \E i \in DOMAIN products : i > 1 /\ FLess(products[i].score, products[i - 1].score)
C4_SortedAfterDedup ==
  /\ YoutubeReturned
  /\ StrictlyFalls(reddit_products) /\ Len(reddit_products) < Len(reddit_mentions)
  /\ StrictlyFalls(youtube_products) /\ Len(youtube_products) < Len(youtube_mentions)

\* the mentions a recommendation can have been made of
MadeOf(recommendation, mentions) ==
  {i \in DOMAIN mentions :
     /\ Sanitize(mentions[i].product) = recommendation.product
     /\ mentions[i].validity_score = recommendation.validity_score}
SystemFirst(recommendation, mentions) ==
  (recommendation # None /\ IsSystemSearch(mentions) /\ Systems(mentions) # <<>>) =>
    /\ \E i \in MadeOf(recommendation, mentions) : ~IsComponent(mentions[i])
    /\ \A i \in MadeOf(recommendation, mentions) : ~IsComponent(mentions[i])

\* C5: for a system product type, when a mention is classified as a system the
\* recommended product is a mention classified as a system, never a component.
C5_SystemsOverComponents ==
  /\ SystemFirst(results.reddit, reddit_products)
  /\ SystemFirst(results.youtube, youtube_products)
\* a gaming pc recommendation made from a list whose best-scored mention is a
\* component
C5_ComponentScoredHigher ==
  /\ Returned
  /\ results.reddit # None
  /\ IsSystemSearch(reddit_products)
  /\ Systems(reddit_products) # <<>>
  /\ IsComponent(reddit_products[1])
  /\ \A i \in DOMAIN reddit_products :
       FLeq(reddit_products[i].score, reddit_products[1].score)

\* C6: the product of every recommendation consists of letters, digits, spaces
\* and hyphens only.
PlainName(recommendation) ==
  recommendation # None =>
    \A i \in DOMAIN recommendation.product :
      recommendation.product[i] \in Letter \cup Digit \cup {" ", "-"}
C6_SanitizedProduct == PlainName(results.reddit) /\ PlainName(results.youtube)

\* C7: the product of every recommendation has at least 3 characters.
LongEnough(recommendation) ==
  recommendation # None => Len(recommendation.product) >= 3
C7_ProductLength == LongEnough(results.reddit) /\ LongEnough(results.youtube)

\* C8: the sources of every recommendation are 1 to 3 distinct URLs, the winning
\* mention's own source first when it has one, and the default URL is there only
\* when no mention gave a URL.
SourcesOk(recommendation, mentions, source) ==
  recommendation # None =>
    LET sources == recommendation.sources
        own == TopProduct(mentions).source
    IN /\ Len(sources) >= 1
       /\ Len(sources) <= 3
       /\ \A i, j \in DOMAIN sources : sources[i] = sources[j] => i = j
       /\ \A i \in DOMAIN sources : sources[i] # ""
       /\ own # "" => sources[1] = own
       /\ (\E i \in DOMAIN sources : <<sources[i]>> = DefaultSources(source)) =>
            /\ own = ""
            /\ \A i \in DOMAIN mentions \cap 2..5 : mentions[i].source = ""
C8_Sources ==
  /\ SourcesOk(results.reddit, reddit_products, "reddit")
  /\ SourcesOk(results.youtube, youtube_products, "youtube")
\* a recommendation whose list gave four URLs, and one whose list gave none
C8_CappedAndDefault ==
  /\ Returned
  /\ results.youtube # None
  /\ Cardinality({youtube_products[i].source : i \in DOMAIN youtube_products} \ {""}) >= 4
  /\ Len(results.youtube.sources) = 3
  /\ results.reddit # None
  /\ results.reddit.sources = DefaultSources("reddit")

\* C9: when one stream's list formats to a recommendation, the returned record
\* carries a recommendation for it, whatever happened to the other stream.
Formats(products) == format_recommendation(products, "", FALSE, ApiRaises) # None
C9_SiblingFailureIsolated ==
  pc = "returned" =>
    /\ Formats(reddit_products) => results.reddit # None
    /\ Formats(youtube_products) => results.youtube # None

\* C10: the call returns whether or not the scrape jobs ever end: until it has
\* returned, some step of the call itself can be taken.
C10_NeverWaitsForAJob == pc = "returned" \/ ENABLED Call


\* the keys of the dict format_recommendation builds (recommender.py:791-799)
RecommendationKeys ==
  {"product", "description", "sources", "buy_link", "image_url", "validity_score",
   "attributes"}
IsRecommendation(r) == DOMAIN r = RecommendationKeys
RecommendationOrNone(r) == r = None \/ IsRecommendation(r)
\* neither scrape gave a comment or a transcript
NoTextUnit ==
  /\ \A t \in DOMAIN reddit_data : reddit_data[t].comments = <<>>
  /\ youtube_data = <<>>

\* C11: no exception leaves process_and_rank_products: the call ends by returning
\* a dict of exactly the keys "reddit" and "youtube", each a recommendation or
\* None, and both None when neither stream has a text unit.
C11_ReturnsBothKeys ==
  /\ raised_in # "" => pc = "returned"
  /\ pc = "returned" =>
       /\ DOMAIN results = {"reddit", "youtube"}
       /\ RecommendationOrNone(results.reddit)
       /\ RecommendationOrNone(results.youtube)
       /\ NoTextUnit => results = NoResults
\* process_youtube_data raised after process_reddit_data had returned mentions, and
\* the call returned
C11_ExceptionCaught ==
  /\ pc = "returned"
  /\ raised_in = "process_youtube_data"
  /\ reddit_products # <<>>
  /\ results = NoResults
\* both scrapes returned and found nothing, and the call returned
C11_NoEvidence ==
  /\ pc = "returned"
  /\ reddit_future = "done" /\ youtube_future = "done"
  /\ NoTextUnit

\* format_recommendation with the description call failing (or no key) against the
\* call answering: the failure costs no recommendation, and the description is
\* the description of the mention it was made of
FallsBackToRaw(products, source) ==
  products # <<>> =>
    \A key \in BOOLEAN : \A answer \in DescriptionCalls :
      LET failed == format_recommendation(products, source, key, ApiRaises)
          answered == format_recommendation(products, source, TRUE, answer)
      IN /\ answered # None => failed # None
         /\ failed # None => failed.description = TopProduct(products).description
KeptRaw(recommendation, products) ==
  recommendation # None /\ recommendation.description = TopProduct(products).description

\* C12: without OPENAI_API_KEY, or when the call of generate_ai_description
\* raises, format_recommendation returns a recommendation where it returns one
\* with the call answering, and its description is the winning mention's
\* description unchanged.
C12_RawDescriptionOnFailure ==
  /\ pc = "format_reddit" => FallsBackToRaw(reddit_products, "reddit")
  /\ pc = "format_youtube" => FallsBackToRaw(youtube_products, "youtube")
  /\ (Returned /\ ~api_key) =>
       /\ results.reddit # None => KeptRaw(results.reddit, reddit_products)
       /\ results.youtube # None => KeptRaw(results.youtube, youtube_products)
\* with the key set, the call failed for the forum recommendation and answered
\* for the video recommendation
C12_FailedCall ==
  /\ Returned
  /\ api_key
  /\ KeptRaw(results.reddit, reddit_products)
  /\ results.youtube # None
  /\ ~KeptRaw(results.youtube, youtube_products)

\* format_recommendation on the list a first format_recommendation left, against
\* the list it was handed, the description call behaving alike
FormatsAlike(before, after, source) ==
  \A api \in DescriptionCalls :
    format_recommendation(after, source, api_key, api)
      = format_recommendation(before, source, api_key, api)
HasTie(products) ==
  \E i, j \in DOMAIN products : i < j /\ products[i].score = products[j].score

\* C13: a second run gives the same recommendation: the functions leave the
\* request and the evidence as they got them, and format_recommendation gives the
\* same record on the mention list it has already been through.
C13_SecondRunIdentical ==
  [][/\ pc \notin {"reddit_result", "youtube_result"} =>
          UNCHANGED <<product, attributes, api_key, reddit_data, youtube_data>>
     /\ pc = "format_reddit" => FormatsAlike(reddit_products, reddit_products', "reddit")
     /\ pc = "format_youtube" =>
          FormatsAlike(youtube_products, youtube_products', "youtube")]_vars
\* format_recommendation has sorted the caller's own list, which holds two
\* mentions of one score, and returned a recommendation
C13_SortedInPlace ==
  /\ pc = "format_youtube"
  /\ results.reddit # None
  /\ Selection(reddit_products).same_list
  /\ HasTie(reddit_products)

\* the texts of the two streams
CommentTexts ==
  UNION {{reddit_data[t].comments[c].text : c \in DOMAIN reddit_data[t].comments} :
           t \in DOMAIN reddit_data}
Transcripts == {youtube_data[v].transcript : v \in DOMAIN youtube_data}
\* extract_product_models draws no candidate from the text, whatever the API does
NlpYieldsNone(text) ==
  \A api \in (IF api_key THEN ApiCalls(text) ELSE {NoApi}) :
    extract_product_models(text, api_key, api.extract) = <<>>
\* extract_model_from_text draws from the text a candidate that is not skipped
FallbackFinds(text) ==
  LET model_name == extract_model_from_text(text, product)
  IN model_name # <<>> /\ ~Skipped(is_valid_product(model_name, text, product).confidence_score)
FallbackApplied(texts, mentions) ==
  \A text \in texts :
    (NlpYieldsNone(text) /\ FallbackFinds(text)) =>
      Mentioned(mentions, extract_model_from_text(text, product))

\* C14: a comment or a transcript from which extract_product_models draws nothing
\* is put through extract_model_from_text: what that finds and does not skip is
\* among the mentions when the function returns.
C14_FallbackBeforeGivingUp ==
  /\ RedditReturned => FallbackApplied(CommentTexts, reddit_mentions)
  /\ YoutubeReturned => FallbackApplied(Transcripts, youtube_mentions)

\* the text the running process_*_data is about to hand to extract_product_models
CurrentTexts ==
  IF pc = "process_reddit" /\ cursor.unit <= Len(reddit_data) /\ cursor.pass = "nlp"
  THEN {reddit_data[cursor.unit].comments[cursor.comment].text}
  ELSE IF pc = "process_youtube" /\ cursor.unit <= Len(youtube_data)
  THEN {youtube_data[cursor.unit].transcript}
  ELSE {}
\* what the extraction call can do: raise, or answer in one of the shapes the
\* parsing tells apart
Replies(text) ==
  {api.extract : api \in ApiCalls(text)}
    \cup {ApiRaises, JsonList(<<text, NotAStr>>), JsonList(<<>>), JsonObject(<<text>>),
          ProseWithList(<<text>>), ProseWithBrackets(<<text>>), ProseOnly, JsonScalar}
ReturnsAList(call) ==
  /\ call.ends = "returns"
  /\ DOMAIN call.list = 1..Len(call.list)

\* C15: extract_product_models returns a list, possibly empty, for the empty text
\* and for every text it is called on, with or without the key, whether the API
\* call raises or answers, in any shape of answer.
C15_ExtractReturnsList ==
  \A text \in CurrentTexts \cup {<<>>} : \A key \in BOOLEAN : \A api \in Replies(text) :
    ReturnsAList(ExtractCall(text, key, api))
\* with the key set, a video whose extraction call can only raise gave a mention
C15_ApiDown ==
  /\ api_key
  /\ pc = "process_youtube"
  /\ \E i \in DOMAIN youtube_mentions :
       \A api \in ApiCalls(youtube_mentions[i].description.text) : api.extract.raises

\* product types of the branches of is_valid_product
SomeProductTypes ==
  {GamingPc.product, Vacuum.product, <<>>, <<"d","e","s","k","t","o","p">>, <<"g","r","a","p","h","i","c","s"," ","c","a","r","d">>, <<"l","a","p","t","o","p">>}
Named(mentions) == \A i \in DOMAIN mentions : mentions[i].product # <<>>

\* C16: no mention has the empty string as its product: is_valid_product gives the
\* empty string a negative score with any context and any product type, and a
\* candidate of negative score is skipped.
C16_NamedMentions ==
  /\ Named(reddit_mentions) /\ Named(youtube_mentions)
  /\ Named(reddit_products) /\ Named(youtube_products)
  /\ \A text \in CurrentTexts \cup {<<>>} : \A product_type \in SomeProductTypes :
       is_valid_product(<<>>, text, product_type).confidence_score < 0
\* the extraction call answered with a list that holds "" beside two names, and
\* the two names became mentions
C16_EmptyCandidateDropped ==
  /\ api_key
  /\ \E i \in DOMAIN reddit_mentions :
       LET text == reddit_mentions[i].description.text
       IN \A api \in ApiCalls(text) :
            InSeq(<<>>, extract_product_models(text, api_key, api.extract))

\* the list the winner is drawn from: systems when there are any, else all the
\* mentions (the components), for a system search; all the mentions otherwise
Partition(products) ==
  IF IsSystemSearch(products) /\ Systems(products) # <<>> THEN Systems(products)
  ELSE products
ReachesBar(mention) == mention.validity_score >= 3
BarKept(recommendation, products) ==
  (products # <<>> /\ \E i \in DOMAIN Partition(products) : ReachesBar(Partition(products)[i])) =>
    /\ ReachesBar(TopProduct(products))
    /\ recommendation # None => recommendation.validity_score >= 3

\* C17: the winner of format_recommendation has validity_score >= 3 whenever a
\* mention of the list it is drawn from has: a mention below 3 wins only when
\* none of that list reaches 3.
C17_ValidPreferred ==
  /\ pc \in {"format_youtube", "returned"} /\ raised_in = "" =>
       BarKept(results.reddit, reddit_products)
  /\ Returned => BarKept(results.youtube, youtube_products)
\* the best-scored mention of the list is below 3, and the recommendation is made
\* of a lower-scored mention that reaches 3
C17_BestScoredBelowBar ==
  /\ Returned
  /\ results.reddit # None
  /\ ~ReachesBar(reddit_products[1])
  /\ \A i \in DOMAIN reddit_products :
       FLeq(reddit_products[i].score, reddit_products[1].score)
  /\ results.reddit.validity_score >= 3

\* every URL of the recommendation is the winner's own, the default, or the
\* source of a mention of selected_products
FromSelected(recommendation, products, source) ==
  recommendation # None =>
    LET selected == SelectedProducts(products)
        sources == recommendation.sources
    IN \A i \in DOMAIN sources :
         \/ sources[i] = TopProduct(products).source
         \/ sources = DefaultSources(source)
         \/ \E j \in DOMAIN selected : selected[j].source = sources[i]

\* C18: a mention left out of selected_products, by the partition into systems
\* and components or by the preference for validity_score >= 3, gives no URL to
\* the sources of the recommendation.
C18_SourcesFromSelected ==
  Returned =>
    /\ FromSelected(results.reddit, reddit_products, "reddit")
    /\ FromSelected(results.youtube, youtube_products, "youtube")

\* the first of the mentions of highest score in a list
EarliestBest(list) ==
  list[CHOOSE i \in DOMAIN list :
         /\ \A j \in DOMAIN list : FLeq(list[j].score, list[i].score)
         /\ \A j \in 1..(i - 1) : FLess(list[j].score, list[i].score)]
\* a list built by filters is in the order of the list it was drawn from
RECURSIVE InOrderOf(_, _)
InOrderOf(sub, list) ==
  IF sub = <<>> THEN TRUE
  ELSE IF list = <<>> THEN FALSE
  ELSE IF Head(sub) = Head(list) THEN InOrderOf(Tail(sub), Tail(list))
  ELSE InOrderOf(sub, Tail(list))
EarliestBestWins(recommendation, products) ==
  products # <<>> =>
    LET selection == Selection(products).list
        best == EarliestBest(selection)
    IN /\ InOrderOf(selection, products)
       /\ TopProduct(products) = best
       /\ recommendation # None =>
            /\ recommendation.product = Sanitize(best.product)
            /\ recommendation.validity_score = best.validity_score
TiedAtTop(list) ==
  \E i, j \in DOMAIN list :
    /\ i < j
    /\ list[i].score = list[j].score
    /\ list[i].product # list[j].product
    /\ \A k \in DOMAIN list : FLeq(list[k].score, list[i].score)

\* C19: the winner of format_recommendation has the highest score of the selected
\* mentions, and of the selected mentions of that score it is the one that comes
\* first in the list handed in.
C19_EarliestOfBestWins ==
  /\ pc \in {"format_youtube", "returned"} /\ raised_in = "" =>
       EarliestBestWins(results.reddit, reddit_products)
  /\ Returned => EarliestBestWins(results.youtube, youtube_products)
\* two selected mentions share the highest score, and a recommendation was made
C19_TieAtTop ==
  /\ Returned
  /\ results.reddit # None
  /\ ~Selection(reddit_products).same_list
  /\ TiedAtTop(Selection(reddit_products).list)

\* the score of a name with the rules for computers as check 4
SystemRulesScore(product_name, context_text) ==
  SumDeltas(<<CheckLength(product_name),
              CheckLettersNumbers(product_name),
              CheckBrand(product_name),
              CheckSystem(product_name, lower(product_name)),
              CheckContext(product_name, context_text)>>).score
SystemRulesApplied(mentions) ==
  \A i \in DOMAIN mentions :
    AnyIn(system_search_terms, lower(mentions[i].product_type)) =>
      mentions[i].validity_score
        = SystemRulesScore(mentions[i].product, mentions[i].description.text)

\* C20: for a product type format_recommendation treats as a system search, the
\* validity_score of a mention is the score is_valid_product gives with its rules
\* for computers: +2 system term, +3 prebuilt brand, -3 bare GPU, -2 bare component.
C20_SystemRulesForSystemTypes ==
  SystemRulesApplied(reddit_mentions) /\ SystemRulesApplied(youtube_mentions)


\* is_valid_product's rules for computers take points from the name as a bare part:
\* one of the two penalties of recommender.py:213-222 is among its reasons
PenalisedAsComponent(product_name) ==
  LET reason == CheckSystem(product_name, lower(product_name)).reason
  IN \/ InSeq("Appears to be just a GPU, not a complete system", reason)
     \/ InSeq("Appears to be just a component, not a complete system", reason)
\* the classification of format_recommendation against those rules, for the
\* mentions of a system search
SameHeuristic(mentions) ==
  IsSystemSearch(mentions) =>
    \A i \in DOMAIN mentions :
      LET product_name == mentions[i].product
          branded == AnyIn(system_brands, lower(product_name))
      IN /\ IsComponent(mentions[i]) <=> (~branded /\ PenalisedAsComponent(product_name))
         /\ branded => ~IsComponent(mentions[i])

\* C21: format_recommendation classifies a mention as a component exactly when its
\* name holds no known prebuilt-system brand and the rules for computers of
\* is_valid_product penalise it as a bare GPU or a bare component; a name that
\* holds such a brand is classified as a system.
C21_SameBarePartHeuristic ==
  /\ pc \in {"format_youtube", "returned"} /\ raised_in = "" => SameHeuristic(reddit_products)
  /\ Returned => SameHeuristic(youtube_products)

\* the query terms: the product type and each attribute that is not empty, lowercased
QueryTerms ==
  <<lower(product)>>
    \o [k \in 1..Len(SelectSeq(attributes, LAMBDA a : a # <<>>)) |->
          lower(SelectSeq(attributes, LAMBDA a : a # <<>>)[k])]
\* the number of query terms that occur in the lowercased name
TermHits(mention) ==
  Cardinality({k \in DOMAIN QueryTerms : Contains(lower(mention.product), QueryTerms[k])})
\* score = sentiment * weight + points / scale, for the fractions score and
\* sentiment, without a division: score.n / score.d =
\* (sentiment.n * weight * scale + sentiment.d * points) / (sentiment.d * scale)
ScoreIs(mention, weight, points, scale) ==
  mention.score.n * mention.sentiment.d * scale
    = mention.score.d * (mention.sentiment.n * weight * scale + mention.sentiment.d * points)
\* ten times what a forum mention gets beside sentiment * 5
ForumPoints(mention) ==
  Min(50, mention.upvotes)
    + 20 * Min(5, Max(0, mention.validity_score))
    + 10 * TermHits(mention)
    + (IF Len(mention.product) > 8 THEN 10 ELSE 0)
ForumFormula(mentions) ==
  \A i \in DOMAIN mentions : ScoreIs(mentions[i], 5, ForumPoints(mentions[i]), 10)

\* C22: the score of every forum mention process_reddit_data returns is
\* sentiment*5 + min(5, upvotes/10) + 2*min(5, max(0, validity_score)) + the number
\* of query terms in the lowercased name + 1 for a name of more than 8 characters.
C22_ForumScore ==
  RedditReturned => ForumFormula(reddit_products)
\* the returned list holds a mention of validity score above 5, one of more than
\* 50 upvotes, one whose name holds a query term and one of at most 8 characters
C22_CapsReached ==
  /\ RedditReturned
  /\ \E i \in DOMAIN reddit_products : reddit_products[i].validity_score > 5
  /\ \E i \in DOMAIN reddit_products : reddit_products[i].upvotes > 50
  /\ \E i \in DOMAIN reddit_products : TermHits(reddit_products[i]) > 0
  /\ \E i \in DOMAIN reddit_products : Len(reddit_products[i].product) <= 8

\* the lowercased name occurs in the lowercased title of the video
InTitle(mention) == Contains(lower(mention.title), lower(mention.product))
\* ten thousand times what a video mention gets beside sentiment * 3
VideoPoints(mention) ==
  Min(30000, mention.likes * 100)
    + Min(40000, mention.views)
    + 20000 * Min(5, Max(0, mention.validity_score))
    + (IF InTitle(mention) THEN 30000 ELSE 0)
    + 10000 * TermHits(mention)
VideoFormula(mentions) ==
  \A i \in DOMAIN mentions : ScoreIs(mentions[i], 3, VideoPoints(mentions[i]), 10000)

\* C23: the score of every video mention process_youtube_data returns is
\* sentiment*3 + min(3, likes/100) + min(4, views/10000)
\* + 2*min(5, max(0, validity_score)) + 3 for a name that occurs in the title + the
\* number of query terms in the lowercased name, with nothing for the length of
\* the name.
C23_VideoScore ==
  YoutubeReturned => VideoFormula(youtube_products)
\* the returned list holds a mention of a name of more than 8 characters that is
\* in the title, one that is not in the title and holds a query term, and the
\* likes and the views of a mention are above their caps
C23_TitleAndTerms ==
  /\ YoutubeReturned
  /\ \E i \in DOMAIN youtube_products :
       InTitle(youtube_products[i]) /\ Len(youtube_products[i].product) > 8
  /\ \E i \in DOMAIN youtube_products :
       ~InTitle(youtube_products[i]) /\ TermHits(youtube_products[i]) > 0
  /\ \E i \in DOMAIN youtube_products :
       youtube_products[i].likes > 300 /\ youtube_products[i].views > 40000

\* mention a is not after mention b under the key (score, sentiment, upvotes),
\* descending
NotAfter(a, b) ==
  \/ FLess(b.score, a.score)
  \/ /\ a.score = b.score
     /\ \/ FLess(b.sentiment, a.sentiment)
        \/ a.sentiment = b.sentiment /\ a.upvotes >= b.upvotes
CompositeOrdered(products) ==
  \A i, j \in DOMAIN products : i < j => NotAfter(products[i], products[j])
\* where a scored mention stands in the list of mentions as they were extracted
Unscored(mention) == [k \in DOMAIN mention \ {"score"} |-> mention[k]]
ExtractedAt(mentions, mention) ==
  CHOOSE i \in DOMAIN mentions :
    /\ mentions[i] = Unscored(mention)
    /\ \A j \in 1..(i - 1) : mentions[j] # Unscored(mention)
\* by score, descending, and mentions of one score as they were extracted
ScoreOrdered(products, mentions) ==
  \A i, j \in DOMAIN products :
    i < j =>
      \/ FLess(products[j].score, products[i].score)
      \/ /\ products[i].score = products[j].score
         /\ ExtractedAt(mentions, products[i]) < ExtractedAt(mentions, products[j])

\* C24: the list process_reddit_data returns is in descending order of
\* (score, sentiment, upvotes): at equal score the higher sentiment is first, at
\* equal score and sentiment the mention of more upvotes; the list
\* process_youtube_data returns is in descending order of score, mentions of equal
\* score in the order of their extraction.
C24_SortOrder ==
  [][/\ RedditReturned => CompositeOrdered(reddit_products)
     /\ (pc = "process_reddit" /\ pc' = "process_youtube") => CompositeOrdered(reddit_products')
     /\ (pc = "process_youtube" /\ pc' = "format_reddit") =>
          ScoreOrdered(youtube_products', youtube_mentions)]_vars
\* the forum list holds a mention extracted last that comes first of three of one
\* score by its sentiment, and of the other two the one of more upvotes comes
\* first
C24_TiesBroken ==
  /\ RedditReturned
  /\ \E i, j, k \in DOMAIN reddit_products :
       /\ i < j /\ j < k
       /\ reddit_products[i].score = reddit_products[k].score
       /\ reddit_products[j].score = reddit_products[k].score
       /\ FLess(reddit_products[j].sentiment, reddit_products[i].sentiment)
       /\ reddit_products[j].sentiment = reddit_products[k].sentiment
       /\ reddit_products[j].upvotes > reddit_products[k].upvotes
       /\ reddit_products[i].upvotes < reddit_products[k].upvotes
\* the video list holds two mentions of one score
C24_VideoTie == YoutubeReturned /\ HasTie(youtube_products)

\* what the scoring call can do: raise, answer without a number, with a number
\* outside [0, 1], or with a number inside
SentimentReplies(text) ==
  {api.sentiment : api \in ApiCalls(text)}
    \cup {ApiRaises, ApiAnswers(<<"p","o","s","i","t","i","v","e">>), ApiAnswers(<<>>), ApiAnswers(<<"7"," ","o","u","t"," ","o","f"," ","1","0">>),
          ApiAnswers(<<"-","0",".","5">>), ApiAnswers(<<"1",".","5">>), ApiAnswers(<<"0">>), ApiAnswers(<<"0",".","2","5">>)}
InUnitInterval(x) == FLeq(Whole(0), x) /\ FLeq(x, Whole(1))
\* the number of terms of a list that occur in the lowercased text
Hits(terms, text) == Cardinality({k \in DOMAIN terms : Contains(lower(text), terms[k])})
\* x = positiveHits / (positiveHits + negativeHits), or 0.5 when there is no hit
IsHitRatio(x, text) ==
  LET positive == Hits(positive_terms, text)
      total == positive + Hits(negative_terms, text)
  IN IF total = 0 THEN x.n * 2 = x.d ELSE x.n * total = x.d * positive
\* the reply holds no number
Numberless(api) == Search(re_number, Strip(api.content)).start = 0
SentimentInRange(text) ==
  \A key \in BOOLEAN : \A api \in SentimentReplies(text) :
    LET sentiment == analyze_sentiment(text, key, api)
    IN /\ InUnitInterval(sentiment)
       /\ text = <<>> => sentiment = Frac(1, 2)
       /\ (text # <<>> /\ (~key \/ api.raises \/ Numberless(api))) => IsHitRatio(sentiment, text)
Sentiments(mentions) == \A i \in DOMAIN mentions : InUnitInterval(mentions[i].sentiment)

\* C25: analyze_sentiment returns a value in [0, 1] for every text, with or
\* without the key, whether the API raises, answers without a number or with a
\* number outside [0, 1]; on the fallback path the value is
\* positiveHits / (positiveHits + negativeHits), and 0.5 for the empty text and for
\* a text that holds no term of either list.
C25_SentimentInRange ==
  /\ \A text \in CurrentTexts \cup {<<>>} : SentimentInRange(text)
  /\ Sentiments(reddit_mentions) /\ Sentiments(youtube_mentions)
\* with the key set, the scoring call answered with a number above 1 for the text
\* of a mention, and the sentiment of the mention is 1
C25_ReplyAboveOne ==
  /\ api_key
  /\ \E i \in DOMAIN reddit_mentions :
       LET text == reddit_mentions[i].description.text
       IN /\ reddit_mentions[i].sentiment = Whole(1)
          /\ \E api \in ApiCalls(text) :
               /\ ~api.sentiment.raises /\ ~Numberless(api.sentiment)
               /\ LET content == Strip(api.sentiment.content)
                  IN FLess(Whole(1), ToFloat(Group0(content, Search(re_number, content))))

\* the ownership phrases the claim lists, and those with "i have"
ClaimedPhrases == <<<<"i"," ","b","o","u","g","h","t">>, <<"i"," ","o","w","n">>, <<"i"," ","u","s","e">>, <<"p","u","r","c","h","a","s","e","d">>, <<"u","s","i","n","g">>>>
PhrasesWithHave == ClaimedPhrases \o <<<<"i"," ","h","a","v","e">>>>
\* a phrase of the list lies within the 50 characters before the first occurrence
\* of the lowercased name in the lowercased context
OwnershipBefore(phrases, product_name, context_text) ==
  LET context_lower == lower(context_text)
      at == Find(context_lower, lower(product_name))
  IN /\ at >= 0
     /\ \E k \in DOMAIN phrases : \E from \in Max(0, at - 50)..at :
          /\ from + Len(phrases[k]) <= at
          /\ SubSeq(context_lower, from + 1, from + Len(phrases[k])) = phrases[k]
\* the score of the name in its context is its score without context, + 3 exactly
\* when a phrase of the list stands before it, + 1 exactly when the context holds
\* recommendation language
ContextBonus(phrases, product_name, context_text, product_type) ==
  is_valid_product(product_name, context_text, product_type).confidence_score
    = is_valid_product(product_name, <<>>, product_type).confidence_score
      + (IF OwnershipBefore(phrases, product_name, context_text) THEN 3 ELSE 0)
      + (IF AnyIn(recommend_terms, lower(context_text)) THEN 1 ELSE 0)
\* names in contexts: the phrase more than 50 characters before the name, partly
\* inside the 50 characters, after the name, twice before it, with the name absent,
\* with recommendation language alone, and with both
Case(product_name, context_text) == [name |-> product_name, text |-> context_text]
OwnershipCases ==
  {Case(<<"D","y","s","o","n"," ","V","1","5">>, <<"I"," ","b","o","u","g","h","t"," ","o","n","e"," ","l","a","s","t"," ","s","p","r","i","n","g"," ","a","n","d"," ","a","f","t","e","r"," ","a","l","l"," ","t","h","i","s"," ","t","i","m","e"," ","I"," ","s","t","i","l","l"," ","l","i","k","e"," ","t","h","e"," ","D","y","s","o","n"," ","V","1","5">>),
   Case(<<"D","y","s","o","n"," ","V","1","5">>, <<"p","u","r","c","h","a","s","e","d"," ","a","f","t","e","r"," ","a"," ","l","o","n","g"," ","s","e","a","r","c","h"," ","t","h","r","o","u","g","h"," ","t","h","e"," ","s","h","o","p","s",":"," ","t","h","e"," ","D","y","s","o","n"," ","V","1","5">>),
   Case(<<"D","y","s","o","n"," ","V","1","5">>, <<"T","h","e"," ","D","y","s","o","n"," ","V","1","5"," ","i","s"," ","w","h","a","t"," ","I"," ","o","w","n">>),
   Case(<<"D","y","s","o","n"," ","V","1","5">>, <<"I"," ","b","o","u","g","h","t"," ","a","n","d"," ","I"," ","u","s","e"," ","t","h","e"," ","D","y","s","o","n"," ","V","1","5">>),
   Case(<<"D","y","s","o","n"," ","V","1","1">>, <<"I"," ","o","w","n"," ","t","h","e"," ","D","y","s","o","n"," ","V","1","5">>),
   Case(<<"D","y","s","o","n"," ","V","1","5">>, <<"t","h","e"," ","b","e","s","t"," ","i","s"," ","t","h","e"," ","D","y","s","o","n"," ","V","1","5">>),
   Case(<<"D","y","s","o","n"," ","V","1","5">>, <<"I"," ","r","e","c","o","m","m","e","n","d"," ","i","t",","," ","u","s","i","n","g"," ","t","h","e"," ","D","y","s","o","n"," ","V","1","5"," ","d","a","i","l","y">>),
   Case(<<"D","y","s","o","n"," ","V","1","5">>, <<>>)}
ContextBonusOf(phrases, mentions) ==
  \A i \in DOMAIN mentions :
    /\ ContextBonus(phrases, mentions[i].product, mentions[i].description.text, product)
    /\ mentions[i].validity_score
         = is_valid_product(mentions[i].product, mentions[i].description.text,
                            product).confidence_score
ContextBonusOfMentions(phrases) ==
  ContextBonusOf(phrases, reddit_mentions) /\ ContextBonusOf(phrases, youtube_mentions)
\* the cases, under the product type of each request
CasesWith(phrases) ==
  \A case \in OwnershipCases : \A request \in Requests :
    ContextBonus(phrases, case.name, case.text, request.product)
CasesWithClaimed == CasesWith(ClaimedPhrases)
CasesWithHave == CasesWith(PhrasesWithHave)

\* C26: is_valid_product adds +3, once, exactly when one of 'i bought', 'i own',
\* 'i use', 'purchased', 'using' lies within the 50 characters before the name in
\* the context, no other phrase adds it, and recommendation language anywhere in
\* the context adds +1.
C26_OwnershipBonus == ContextBonusOfMentions(ClaimedPhrases) /\ CasesWithClaimed
\* C26 with 'i have' among the phrases, as ownership_terms has it
C26_OwnershipBonusWithHave == ContextBonusOfMentions(PhrasesWithHave) /\ CasesWithHave
\* a mention got the +3 in a context where none of the five phrases of the claim
\* stands before the name, and another where one does
C26_BonusByHave ==
  /\ \E i \in DOMAIN reddit_mentions :
       /\ InSeq("Product mentioned in ownership context", reddit_mentions[i].validity_reason)
       /\ ~OwnershipBefore(ClaimedPhrases, reddit_mentions[i].product,
                           reddit_mentions[i].description.text)
  /\ \E i \in DOMAIN youtube_mentions :
       /\ InSeq("Product mentioned in ownership context", youtube_mentions[i].validity_reason)
       /\ OwnershipBefore(ClaimedPhrases, youtube_mentions[i].product,
                          youtube_mentions[i].description.text)

\* the text the step at the cursor hands to the API functions
StepText ==
  IF pc = "process_reddit" THEN reddit_data[cursor.unit].comments[cursor.comment].text
  ELSE youtube_data[cursor.unit].transcript
\* the mentions a step appended to those of its stream
Added(before, after) == SubSeq(after, Len(before) + 1, Len(after))
AddedByStep ==
  IF pc = "process_reddit" THEN Added(reddit_mentions, reddit_mentions')
  ELSE Added(youtube_mentions, youtube_mentions')
\* each function made at most one invocation
OncePerFunction(invocations) ==
  \A i, j \in DOMAIN invocations :
    invocations[i].function = invocations[j].function => i = j
\* what the step made of a function whose invocation raised is the function's
\* fallback: the mentions appended are those of the names the regex extraction finds
\* in the text (those of negative validity skipped), their sentiment is the term
\* ratio of the text, the description of the recommendation is the scraped one of
\* the top mention
FallbackReturned(function) ==
  IF function = "extract_product_models"
  THEN [i \in DOMAIN AddedByStep |-> AddedByStep[i].product]
         = SelectSeq(regex_extract_product_models(StepText),
                     LAMBDA model : is_valid_product(model, StepText, product).confidence_score >= 0)
  ELSE IF function = "analyze_sentiment"
  THEN \A i \in DOMAIN AddedByStep : AddedByStep[i].sentiment = basic_sentiment_analysis(StepText)
  ELSE IF pc = "format_reddit"
       THEN results'.reddit.description = TopProduct(reddit_products).description
       ELSE results'.youtube.description = TopProduct(youtube_products).description
SingleInvocation ==
  /\ OncePerFunction(api_calls')
  /\ \A k \in DOMAIN api_calls' : api_calls'[k].raised => FallbackReturned(api_calls'[k].function)

\* C27: one call of extract_product_models, analyze_sentiment or
\* generate_ai_description invokes the API at most once; when that invocation raises
\* the call returns its fallback result and makes no second invocation.
C27_NoRetry == [][SingleInvocation]_vars
\* a comment whose extraction and sentiment invocations both raised, and became a
\* mention through the fallbacks
C27_BothRaised ==
  /\ pc = "process_reddit"
  /\ Len(api_calls) = 2 /\ \A k \in DOMAIN api_calls : api_calls[k].raised
  /\ reddit_mentions # <<>>
  /\ NoApi \in ApiCalls(reddit_mentions[Len(reddit_mentions)].description.text)
  /\ reddit_mentions[Len(reddit_mentions)].sentiment
       = basic_sentiment_analysis(reddit_mentions[Len(reddit_mentions)].description.text)
\* a recommendation whose description invocation raised
C27_DescriptionRaised ==
  /\ pc = "format_youtube"
  /\ api_calls = <<[function |-> "generate_ai_description", raised |-> TRUE]>>
  /\ results.reddit # None
  /\ results.reddit.description = TopProduct(reddit_products).description

\* a step of format_recommendation
FormatStep == pc \in {"format_reddit", "format_youtube"}
\* the list the step hands to format_recommendation
Handed == IF pc = "format_reddit" THEN reddit_products ELSE youtube_products
ListsUntouched ==
  FormatStep => /\ reddit_products' = reddit_products
                /\ youtube_products' = youtube_products

C28_UnsortedHanded ==
  /\ FormatStep
  /\ Handed # <<>>
  /\ ValidProducts(Handed) = <<>>
  /\ \E i \in 1..(Len(Handed) - 1) : FLess(Handed[i].score, Handed[i + 1].score)

\* names of every branch of the checks: empty, digits alone (no check but the brand
\* check has a reason for it), short, a future GPU, an Arc of the B series, a system
EdgeNames ==
  {<<>>, <<"1","2","3","4","5","6">>, <<"a","b","c">>, <<"R","T","X"," ","5","0","9","0">>, <<"A","r","c"," ","B","5","8","0">>, <<"A","l","i","e","n","w","a","r","e"," ","A","u","r","o","r","a"," ","R","1","6">>}
\* the names the extraction gives for a text, with or without the key
Candidates(text) ==
  UNION {{models[i] : i \in {k \in DOMAIN models : IsStr(models[k])}} :
           models \in {extract_product_models(text, key, api.extract) :
                         key \in BOOLEAN, api \in ApiCalls(text)}}
\* a verdict with at least one reason, valid exactly from a score of 3
Justified(verdict) ==
  /\ Len(verdict.reason) >= 1
  /\ verdict.is_valid <=> verdict.confidence_score >= 3
EdgeNamesJustified ==
  \A name \in EdgeNames : \A product_type \in SomeProductTypes :
    Justified(is_valid_product(name, <<>>, product_type))
ReasonsKept(mentions) == \A i \in DOMAIN mentions : Len(mentions[i].validity_reason) >= 1

\* C29: is_valid_product returns, for every name, context and product type, a
\* verdict with at least one reason, and is_valid is true exactly when the
\* returned score is >= 3.
C29_JustifiedVerdict ==
  /\ EdgeNamesJustified
  /\ \A text \in CurrentTexts : \A name \in Candidates(text) \cup {<<>>} :
       Justified(is_valid_product(name, text, product))
  /\ ReasonsKept(reddit_mentions) /\ ReasonsKept(youtube_mentions)
\* the text at the cursor holds a candidate that is valid and one that is not, and
\* a mention was kept with a score below 3
C29_BothVerdicts ==
  /\ \E text \in CurrentTexts :
       /\ \E name \in Candidates(text) : is_valid_product(name, text, product).is_valid
       /\ \E name \in Candidates(text) : ~is_valid_product(name, text, product).is_valid
  /\ \E i \in DOMAIN reddit_mentions : reddit_mentions[i].validity_score < 3

\* process_reddit_data is in its loops before and after the step
InLoops == pc = "process_reddit" /\ pc' = "process_reddit" /\ cursor.unit <= Len(reddit_data)
\* the cursor stands in the second pass of a thread
InFallback(at) == at.unit <= Len(reddit_data) /\ at.pass = "fallback"
\* the step is the last comment of the first pass of its thread
EndsFirstPass ==
  /\ cursor.pass = "nlp"
  /\ cursor.comment = Len(reddit_data[cursor.unit].comments)
  /\ cursor' # cursor
\* the step takes the cursor into the second pass of a thread
EntersFallback ==
  /\ InFallback(cursor')
  /\ ~(InFallback(cursor) /\ cursor.unit = cursor'.unit)
\* the mentions only grow, and a step of the second pass appends at most one, of a
\* name that no mention had, letter case aside
GrowsByNew ==
  /\ Len(reddit_mentions') >= Len(reddit_mentions)
  /\ SubSeq(reddit_mentions', 1, Len(reddit_mentions)) = reddit_mentions
  /\ InFallback(cursor) =>
       /\ Len(reddit_mentions') <= Len(reddit_mentions) + 1
       /\ \A i \in DOMAIN reddit_mentions :
            \A j \in (Len(reddit_mentions) + 1)..Len(reddit_mentions') :
              lower(reddit_mentions[i].product) # lower(reddit_mentions'[j].product)
FallbackBelowTwo ==
  InLoops =>
    /\ EndsFirstPass =>
         ((InFallback(cursor') /\ cursor'.unit = cursor.unit) <=> Len(reddit_mentions') < 2)
    /\ EntersFallback => Len(reddit_mentions') < 2
    /\ (Len(reddit_mentions) >= 2 /\ ~InFallback(cursor)) => ~InFallback(cursor')
    /\ GrowsByNew

\* C30: the second pass over a thread's comments is made exactly when fewer than
\* 2 mentions are accumulated after the thread's first pass; once there are 2 no
\* later thread gets it; and it never appends a mention whose lowercased name is
\* that of a mention already accumulated.
C30_FallbackBelowTwo == [][FallbackBelowTwo]_vars
\* the second pass stands at a comment whose name, letter case aside, is that of
\* the one mention accumulated
C30_RepeatedName ==
  /\ pc = "process_reddit" /\ InFallback(cursor)
  /\ Len(reddit_mentions) = 1
  /\ extract_model_from_text(StepText, product) # <<>>
  /\ lower(extract_model_from_text(StepText, product)) = lower(reddit_mentions[1].product)
\* the first pass of the second thread is over, with 2 mentions or more, after a
\* first thread that got the second pass
C30_LaterThreadSkipped ==
  /\ pc = "process_reddit" /\ cursor.unit > Len(reddit_data) /\ Len(reddit_data) = 2
  /\ Len(reddit_mentions) >= 2
  /\ reddit_mentions[Len(reddit_mentions)].source = reddit_data[2].url
  /\ \E i \in DOMAIN reddit_mentions :
       /\ reddit_mentions[i].source = reddit_data[1].url
       /\ reddit_mentions[i].product
            = extract_model_from_text(reddit_mentions[i].description.text, product)

====
